---- MODULE Spec2Model ----
(***************************************************************************)
(* A model of backend/executor.py: the expression validator, the per-test  *)
(* pipeline (_run_single_test) and the test-suite orchestrator (run_tests).*)
(*                                                                         *)
(* Text is a sequence of strings.  An invocation expression is a sequence  *)
(* of one-character strings, so that substring search and the regular      *)
(* expression work on characters; messages are sequences of longer tokens. *)
(* A Python value that may be None is a set: {} is None, {x} is x.         *)
(***************************************************************************)
EXTENDS Integers, Sequences, FiniteSets, TLC

VARIABLES
    code,             \* the submitted code (its characters by UTF-8 width)
    submission,       \* how the submitted code can behave once it is run
    test_cases,       \* the ordered list of test cases of the call
    timeout,          \* CodeExecutor.timeout, seconds
    pc,               \* position of the run_tests coroutine
    results,          \* run_tests: results
    consecutive_tle,  \* run_tests: consecutive_tle
    summary,          \* the value run_tests returned (None before it returns)
    pending,          \* the outcome _run_single_test is returning
    proc,             \* the subprocess of the test being run
    tmp_files,        \* temporary program files that exist on disk
    waited,           \* seconds spent in wait_for(proc.communicate())
    reap_waited,      \* seconds spent in _wait_for_killed_process
    log,              \* history: what happened to each test, by test number
    call_id,          \* which call of run_tests on the executor is running
    other,            \* the executor's other call: one that ended earlier, or
                      \* one suspended at an await (its arguments and locals)
    helpers,          \* run_tests: helpers (is the helper library injected)
    environ,          \* os.environ of the host: <<name, value>> pairs
    rlimit,           \* the resource-limit prologue running in a subprocess
    heap,             \* the ListNode objects a helper function has made
    helper_call       \* the call of a helper function: its position and locals

vars == <<code, submission, test_cases, timeout, pc, results, consecutive_tle,
          summary, pending, proc, tmp_files, waited, reap_waited, log,
          call_id, other, helpers, environ, rlimit, heap, helper_call>>

\* what the host gives a call, and what runs inside a subprocess
host == <<helpers, environ>>
child == <<rlimit, heap, helper_call>>

---------------------------------------------------------------------------
(* Bounds of the model *)

\* longest list of test cases of a call
MaxTests == 4
\* the timeout (seconds) the executor is constructed with
TimeoutSeconds == 2
\* most fragments an invocation expression is assembled from
MaxFrags == 3
\* most chunks written to the error stream before, and after, the payload
MaxNoise == 1
\* longest list of test cases of a call that is made twice
MaxRepeatedTests == 2
\* longest list of test cases of a call that runs while another call does
MaxSharedTests == 3
\* most lines of a submission whose tracebacks are looked at
MaxCodeLines == 3
\* most frames of a traceback that lie in the submitted code
MaxCallDepth == 2
\* longest list of values given to a helper function
MaxListLen == 3
\* longest level-order list given to tree_node
MaxTreeLen == 5

(* Program constants *)

MAX_CODE_SIZE == 51200
_KILL_WAIT_TIMEOUT == 3
max_consecutive_tle == 3
MEMORY_LIMIT_BYTES == 536870912
CPU_TIME_LIMIT_SECONDS == 10
MAX_FILE_SIZE == 1048576

---------------------------------------------------------------------------
(* Python values *)

None == {}
Some(x) == {x}
Get(o) == CHOOSE x \in o : TRUE

\* (x or ""): None and the empty text both give the empty text
OrEmpty(o) == IF o = None THEN <<>> ELSE Get(o)

\* text.startswith(prefix)
StartsWith(text, prefix) ==
    /\ Len(text) >= Len(prefix)
    /\ SubSeq(text, 1, Len(prefix)) = prefix

\* a slip: the pattern is looked for at the start of the text only
Contains_AtStart(text, pattern) ==
    /\ Len(text) >= Len(pattern)
    /\ SubSeq(text, 1, Len(pattern)) = pattern

\* pattern in text
Contains(text, pattern) ==
    \E i \in 1..(Len(text) - Len(pattern) + 1) :
        SubSeq(text, i, i + Len(pattern) - 1) = pattern

Min(S) == CHOOSE x \in S : \A y \in S : x <= y

---------------------------------------------------------------------------
(* The expression validator *)

_DANGEROUS_PATTERNS == <<
    <<"_", "_">>,
    <<"i", "m", "p", "o", "r", "t", " ">>,
    <<"o", "p", "e", "n", "(">>,
    <<"e", "v", "a", "l", "(">>,
    <<"e", "x", "e", "c", "(">>,
    <<"c", "o", "m", "p", "i", "l", "e", "(">>,
    <<"g", "e", "t", "a", "t", "t", "r">>,
    <<"s", "e", "t", "a", "t", "t", "r">>,
    <<"d", "e", "l", "a", "t", "t", "r">>,
    <<"g", "l", "o", "b", "a", "l", "s">>,
    <<"l", "o", "c", "a", "l", "s">>,
    <<"v", "a", "r", "s", "(">>,
    <<"d", "i", "r", "(">>,
    <<"o", "s", ".">>,
    <<"s", "y", "s", ".">>,
    <<"s", "u", "b", "p", "r", "o", "c", "e", "s", "s">>,
    <<"s", "h", "u", "t", "i", "l">>,
    <<"p", "a", "t", "h", "l", "i", "b">>,
    <<"s", "o", "c", "k", "e", "t">>,
    <<"h", "t", "t", "p">>,
    <<"u", "r", "l", "l", "i", "b">>,
    <<"\\", "n">>,
    <<";">> >>

\* [a-zA-Z]: the ASCII letters the model's expressions use
AsciiLetters ==
    {"a", "b", "c", "d", "e", "f", "g", "h", "i", "j", "k", "l", "m", "n", "o",
     "p", "q", "r", "s", "t", "u", "v", "w", "x", "y", "z", "S", "T"}

Digits == {"0", "1", "2", "3", "4", "5", "6", "7", "8", "9"}

\* a letter outside ASCII, which \w matches and [a-zA-Z] does not; "U+00E9"
\* stands for the one character e-acute
UnicodeLetters == {"U+00E9"}

\* \s
Whitespace == {" ", "\t", "\n", "\r"}

\* ( ) [ ] ' " , = . * : -
SafePunctuation == {"(", ")", "[", "]", "'", "\"", ",", "=", ".", "*", ":", "-"}

\* [a-zA-Z_]
IsIdentStart(c) == c \in AsciiLetters \cup {"_"}

\* [a-zA-Z0-9_]
IsIdentChar(c) == c \in AsciiLetters \cup Digits \cup {"_"}

\* [\w\s\(\)\[\]\'\",=.*:_\-]
IsSafeChar(c) ==
    c \in AsciiLetters \cup Digits \cup {"_"} \cup UnicodeLetters
          \cup Whitespace \cup SafePunctuation

\* where $ matches: at the end, and before a newline that ends the string
DollarPositions(s) ==
    {Len(s)} \cup (IF Len(s) >= 1 /\ s[Len(s)] = "\n" THEN {Len(s) - 1} ELSE {})

\* a slip: the pattern is not anchored at the end, and a prefix that matches
\* is enough
_SAFE_FUNCTION_CALL_RE_Unanchored(s) ==
    /\ Len(s) >= 1
    /\ IsIdentStart(s[1])

\* _SAFE_FUNCTION_CALL_RE.match(s): ^[a-zA-Z_][a-zA-Z0-9_]*[safe]*$
_SAFE_FUNCTION_CALL_RE(s) ==
    \E e \in DollarPositions(s) :
        /\ e >= 1
        /\ IsIdentStart(s[1])
        /\ \E k \in 1..e :
              /\ \A j \in 2..k : IsIdentChar(s[j])
              /\ \A j \in (k + 1)..e : IsSafeChar(s[j])

\* the denylist patterns found in the expression, as indexes of the denylist
PatternsFound(function_call) ==
    {k \in 1..Len(_DANGEROUS_PATTERNS) :
        Contains(function_call, _DANGEROUS_PATTERNS[k])}

UnsafeContains(pattern) ==
    <<"Unsafe function_call expression: contains '">> \o pattern \o <<"'">>

UnsafeShape == <<"Unsafe function_call expression: failed pattern validation">>

\* _validate_function_call: the expression, or the ValueError it raises
_validate_function_call(function_call) ==
    LET found == PatternsFound(function_call)
    IN  IF found # {}
        THEN [ok |-> FALSE,
              value |-> UnsafeContains(_DANGEROUS_PATTERNS[Min(found)])]
        ELSE IF ~_SAFE_FUNCTION_CALL_RE(function_call)
        THEN [ok |-> FALSE, value |-> UnsafeShape]
        ELSE [ok |-> TRUE, value |-> function_call]

---------------------------------------------------------------------------
(* The submitted code and the synthesized program *)

\* a slip: len(code), the number of characters
EncodedSize_Characters(c) == c.ascii + c.wide

\* len(code.encode('utf-8')): an ASCII character takes one byte, and the
\* model's wide characters (such as an em dash) take three
EncodedSize(c) == c.ascii + 3 * c.wide

\* code.count('\n') + 1
user_code_num_lines(c) == c.newlines + 1

\* A program text is a sequence of lines and newlines.  A line is named by
\* the part of the program it belongs to and its number within that part.
Line(part, k) == [part |-> part, k |-> k]
NL == Line("newline", 0)

\* n lines of a part, each ended by a newline
Lines(part, n) ==
    [i \in 1..(2 * n) |-> IF i % 2 = 1 THEN Line(part, (i + 1) \div 2) ELSE NL]

\* lines of _resource_limits_code()
RlimitCodeLines == 16
\* the import lines of the wrapper (lines 302-307)
ImportLines == 6
\* lines of DATA_STRUCTURE_HELPERS after its empty first line (lines 73-157)
HelperCodeLines == 85
\* lines of the harness (lines 313-341); line 326 evaluates the expression
\* and line 329 encodes the result
HarnessLines == 29
HarnessCallLine == 14
HarnessDumpsLine == 17

rlimit_code == Lines("rlimit", RlimitCodeLines)

\* helper_code (line 284)
helper_code(h) ==
    IF h THEN <<NL>> \o Lines("helper", HelperCodeLines) ELSE <<>>

\* the submitted code: its lines, separated by newlines
CodeText(c) ==
    [i \in 1..(2 * c.newlines + 1) |->
        IF i % 2 = 1 THEN Line("code", (i + 1) \div 2) ELSE NL]

\* text.count('\n')
CountNewlines(text) == Cardinality({i \in 1..Len(text) : text[i] = NL})

\* a slip: the helper library is left out of the text the offset is
\* counted on
pre_code_WithoutHelpers(h) ==
    <<NL>> \o rlimit_code \o <<NL>> \o Lines("import", ImportLines) \o <<NL>>
        \o <<NL, NL>>

\* pre_code (line 296)
pre_code(h) ==
    <<NL>> \o rlimit_code \o <<NL>> \o Lines("import", ImportLines) \o <<NL>>
        \o helper_code(h) \o <<NL, NL>>

\* user_code_offset (line 297)
user_code_offset == CountNewlines(pre_code(helpers))

\* wrapper (lines 300-342)
wrapper(h, c) ==
    <<NL>> \o rlimit_code \o <<NL>> \o Lines("import", ImportLines) \o <<NL>>
        \o helper_code(h) \o <<NL, NL>> \o CodeText(c) \o <<NL, NL>>
        \o Lines("harness", HarnessLines)

\* the number of the line of the program file that a line of a part is on
LineNumber(text, line) ==
    LET at == CHOOSE i \in 1..Len(text) : text[i] = line
    IN  1 + Cardinality({i \in 1..(at - 1) : text[i] = NL})

\* a traceback frame: the file it is in and its line number there; for a
\* frame in the program file, the line of the program it is on
ProgramFrame(text, part, k) ==
    [file |-> "program", part |-> part, k |-> k,
     lineno |-> LineNumber(text, Line(part, k))]

LibraryFrame(n) == [file |-> "library", part |-> "library", k |-> n, lineno |-> n]

\* _line (lines 333-338): the adjusted line of the first frame, walking from
\* the innermost, that falls in the range of the submitted code; 0 stands
\* for the empty annotation
RECURSIVE _line(_, _, _)
_line(_frames, offset, num_lines) ==
    IF _frames = <<>> THEN 0
    ELSE LET _adj == _frames[Len(_frames)].lineno - offset
         IN  IF 0 < _adj /\ _adj <= num_lines THEN _adj
             ELSE _line(SubSeq(_frames, 1, Len(_frames) - 1), offset, num_lines)

---------------------------------------------------------------------------
(* What the subprocess writes: a sequence of chunks.  A chunk is the      *)
(* per-test marker, a payload (the text between two markers), a traceback *)
(* header, a traceback frame line (File "<text>", line <line>), an        *)
(* absolute path with <line> directories above the file <text>, or plain  *)
(* text.                                                                   *)

Chunk(k, t, n) == [kind |-> k, text |-> t, line |-> n]

\* secrets.token_hex(32), a fresh value per test
marker == Chunk("marker", "<marker>", 0)

TracebackHead == Chunk("tb", "Traceback (most recent call last):", 0)

\* a JSON value that is a number or a boolean, as Python holds it: bool is
\* a subclass of int, True is 1 and False is 0
PyInt(n) == [type |-> "int", n |-> n]
PyBool(b) == [type |-> "bool", n |-> IF b THEN 1 ELSE 0]

\* a slip: values of different types are never equal
PyEq_SameType(a, b) == a = b

\* a == b
PyEq(a, b) == a.n = b.n

\* a JSON number where a string is expected, written as a text that no
\* string of the model equals
JsonNumber(n) == <<"<number>", ToString(n)>>

\* isinstance(value, str)
IsStr(value) == ~(Len(value) >= 1 /\ value[1] = "<number>")

\* the payloads json.loads can read, and the dict each one gives; the value
\* of "error" may be null (None), and it is a string unless the submission
\* forged the payload; the value of "runtime_ms" is the number the harness
\* measured unless the submission forged the payload, and then it may be
\* null
JsonTable ==
    [p \in {"{result: 1}", "{result: 1} in 70 ms", "{result: 2}",
            "{result: true}",
            "{error: division}", "{error: TLE}", "{error: null}",
            "{error: 1}", "{error: __file__}", "{error: raised}",
            "{error: not serializable}", "{result: 1, runtime_ms: null}"} |->
        CASE p = "{result: 1}" ->
                [keys |-> {"result", "runtime_ms", "stdout"}, result |-> PyInt(1),
                 runtime_ms |-> Some(7), stdout |-> <<>>, error |-> None]
          [] p = "{result: 1} in 70 ms" ->
                [keys |-> {"result", "runtime_ms", "stdout"}, result |-> PyInt(1),
                 runtime_ms |-> Some(70), stdout |-> <<>>, error |-> None]
          [] p = "{result: 2}" ->
                [keys |-> {"result", "runtime_ms", "stdout"}, result |-> PyInt(2),
                 runtime_ms |-> Some(9), stdout |-> <<"debug">>, error |-> None]
          [] p = "{result: true}" ->
                [keys |-> {"result", "runtime_ms", "stdout"},
                 result |-> PyBool(TRUE), runtime_ms |-> Some(8), stdout |-> <<>>,
                 error |-> None]
          [] p = "{error: division}" ->
                [keys |-> {"error", "stdout"}, result |-> PyInt(0),
                 runtime_ms |-> Some(0), stdout |-> <<>>,
                 error |-> Some(<<"division by zero", " (line 2)">>)]
          [] p = "{error: TLE}" ->
                [keys |-> {"error", "stdout"}, result |-> PyInt(0),
                 runtime_ms |-> Some(0), stdout |-> <<>>,
                 error |-> Some(<<"Time Limit Exceeded", " says the submission">>)]
          [] p = "{error: null}" ->
                [keys |-> {"error"}, result |-> PyInt(0),
                 runtime_ms |-> Some(0), stdout |-> <<>>, error |-> None]
          [] p = "{error: 1}" ->
                [keys |-> {"error"}, result |-> PyInt(0),
                 runtime_ms |-> Some(0), stdout |-> <<>>, error |-> Some(JsonNumber(1))]
          [] p = "{error: __file__}" ->
                [keys |-> {"error", "stdout"}, result |-> PyInt(0),
                 runtime_ms |-> Some(0), stdout |-> <<>>,
                 error |-> Some(<<"/tmp/tmpab12cd.py", " (line 2)">>)]
          [] p = "{error: raised}" ->
                [keys |-> {"error", "stdout"}, result |-> PyInt(0),
                 runtime_ms |-> Some(0), stdout |-> <<>>, error |-> Some(<<"boom">>)]
          [] p = "{error: not serializable}" ->
                [keys |-> {"error", "stdout"}, result |-> PyInt(0),
                 runtime_ms |-> Some(0), stdout |-> <<"debug">>,
                 error |-> Some(<<"Object of type set is not JSON serializable">>)]
          [] p = "{result: 1, runtime_ms: null}" ->
                [keys |-> {"result", "runtime_ms"}, result |-> PyInt(1),
                 runtime_ms |-> None, stdout |-> <<>>, error |-> None]]

\* the dict of a payload whose error text ends with the annotation
\* ' (line n)', which the harness appended before it encoded the payload
Annotated(d, n) ==
    IF n > 0 /\ d.error # None
    THEN [d EXCEPT !.error = Some(Get(d.error) \o <<" (line ", ToString(n), ")">>)]
    ELSE d

\* json.loads(result_json_str)
JsonLoads(part) ==
    IF Len(part) = 1 /\ part[1].kind = "json" /\ part[1].text \in DOMAIN JsonTable
    THEN [ok |-> TRUE,
          value |-> Annotated(JsonTable[part[1].text], part[1].line)]
    ELSE [ok |-> FALSE, value |-> JsonTable["{result: 1}"]]

SeqsUpTo(S, n) == UNION {[1..k -> S] : k \in 0..n}

MarkerPositions(s) == {i \in 1..Len(s) : s[i] = marker}

NthMarker(s, n) ==
    CHOOSE i \in MarkerPositions(s) :
        Cardinality({j \in MarkerPositions(s) : j <= i}) = n

\* len(stderr.split(marker))
NumParts(s) == Cardinality(MarkerPositions(s)) + 1

\* stderr.split(marker)[n - 1]
Part(s, n) ==
    SubSeq(s,
           IF n = 1 THEN 1 ELSE NthMarker(s, n - 1) + 1,
           IF n = NumParts(s) THEN Len(s) ELSE NthMarker(s, n) - 1)

\* text.replace(pattern, ""), for a non-empty pattern
RECURSIVE RemoveAll(_, _)
RemoveAll(text, pattern) ==
    IF Len(text) < Len(pattern) THEN text
    ELSE IF SubSeq(text, 1, Len(pattern)) = pattern
    THEN RemoveAll(SubSeq(text, Len(pattern) + 1, Len(text)), pattern)
    ELSE <<text[1]>> \o RemoveAll(Tail(text), pattern)

\* a slip: parts[0], the text before the first marker
ResultJsonStr_FirstPart(stderr) ==
    IF stderr # <<>> /\ MarkerPositions(stderr) # {} /\ NumParts(stderr) >= 3
    THEN Some(Part(stderr, 1))
    ELSE None

\* result_json_str (lines 382-386): None, or the text between the first two markers
ResultJsonStr(stderr) ==
    IF stderr # <<>> /\ MarkerPositions(stderr) # {} /\ NumParts(stderr) >= 3
    THEN Some(Part(stderr, 2))
    ELSE None

\* stderr after line 388
WithoutPayload(stderr) ==
    IF stderr # <<>> /\ MarkerPositions(stderr) # {}
    THEN RemoveAll(stderr,
                   <<marker>> \o OrEmpty(ResultJsonStr(stderr)) \o <<marker>>)
    ELSE stderr

---------------------------------------------------------------------------
(* _sanitize_stderr *)

IsBlank(c) == c.kind = "text" /\ c.text \in {"", " ", "\n"}

\* the two re.sub calls, on one chunk
SanitizedChunk(c) ==
    CASE c.kind = "frame" -> "File \"<user_code>\", line " \o ToString(c.line)
      [] c.kind = "path" /\ c.line >= 1 -> "<sandbox>/" \o c.text
      [] c.kind = "path" /\ c.line < 1 -> "/" \o c.text
      [] OTHER -> c.text

RECURSIVE Strip(_)
Strip(s) ==
    IF s = <<>> THEN s
    ELSE IF IsBlank(s[1]) THEN Strip(Tail(s))
    ELSE IF IsBlank(s[Len(s)]) THEN Strip(SubSeq(s, 1, Len(s) - 1))
    ELSE s

\* the frame lines whose adjusted number lies in the submitted code
FramesInUserCode(lines, offset, num_lines) ==
    {i \in 1..Len(lines) :
        /\ lines[i].kind = "frame"
        /\ 0 < lines[i].line - offset
        /\ lines[i].line - offset <= num_lines}

Max(S) == CHOOSE x \in S : \A y \in S : x >= y

_sanitize_stderr(stderr, offset, num_lines) ==
    LET lines == Strip(stderr)
        hits == FramesInUserCode(lines, offset, num_lines)
    IN  IF lines = <<>> THEN <<>>
        ELSE IF Len(lines) > 1 /\ lines[1].kind = "tb"
        THEN IF hits # {}
             THEN <<SanitizedChunk(lines[Len(lines)]), " (line ",
                    ToString(lines[Max(hits)].line - offset), ")">>
             ELSE <<SanitizedChunk(lines[Len(lines)])>>
        ELSE [i \in 1..Len(lines) |-> SanitizedChunk(lines[i])]

---------------------------------------------------------------------------
(* Test outcomes *)

Outcome(n, test, act, ok, err, ms, out) ==
    [test_num |-> n, input |-> test.input, expected |-> test.expected,
     actual |-> act, passed |-> ok, error |-> err, runtime_ms |-> ms,
     stdout |-> out]

Failure(n, test, err) == Outcome(n, test, None, FALSE, Some(err), None, <<>>)

TLE == <<"Time Limit Exceeded">>

\* lines 222-238
OversizeError ==
    <<"Code exceeds maximum size of ", ToString(MAX_CODE_SIZE \div 1024), "KB">>

\* lines 370-379
TimeoutError(t) == TLE \o <<" (", ToString(t), "s)">>

\* line 259
SkippedError ==
    <<"Skipped - ", ToString(max_consecutive_tle), " consecutive ">> \o TLE

\* lines 459-468
ExecutionError(e) == <<"Execution error: ", e>>

\* a slip: a non-zero exit is reported as a process failure even when a
\* payload was found
ExtractPath_ExitCodeFirst(b) ==
    LET rjs == ResultJsonStr(b.stderr)
    IN  IF b.returncode # 0 THEN "process_failure"
        ELSE IF rjs = None THEN "no_result"
        ELSE IF ~JsonLoads(Get(rjs)).ok THEN "parse_failure"
        ELSE IF "error" \in JsonLoads(Get(rjs)).value.keys THEN "runtime_exception"
        ELSE IF {"result", "runtime_ms"} \subseteq JsonLoads(Get(rjs)).value.keys
        THEN "result"
        ELSE "key_error"

\* which return statement of lines 393-452 is taken
ExtractPath(b) ==
    LET rjs == ResultJsonStr(b.stderr)
    IN  IF b.returncode # 0 /\ rjs = None THEN "process_failure"
        ELSE IF rjs = None THEN "no_result"
        ELSE IF ~JsonLoads(Get(rjs)).ok THEN "parse_failure"
        ELSE IF "error" \in JsonLoads(Get(rjs)).value.keys THEN "runtime_exception"
        ELSE IF {"result", "runtime_ms"} \subseteq JsonLoads(Get(rjs)).value.keys
        THEN "result"
        ELSE "key_error"

\* lines 381-452 (and 454-468 for an exception raised in them)
ExtractOutcome(n, test, c, b) ==
    LET rjs == ResultJsonStr(b.stderr)
        diag == _sanitize_stderr(WithoutPayload(b.stderr), user_code_offset,
                                 user_code_num_lines(c))
        path == ExtractPath(b)
        output == JsonLoads(Get(rjs)).value
    IN  CASE path = "process_failure" ->
                Outcome(n, test, None, FALSE,
                        Some(IF diag # <<>> THEN diag
                             ELSE <<"Process exited with non-zero status">>),
                        None, Strip(b.stdout))
          [] path = "no_result" ->
                Failure(n, test, <<"No result received from execution">>)
          [] path = "parse_failure" ->
                Failure(n, test, <<"Failed to parse execution result">>)
          [] path = "runtime_exception" ->
                Outcome(n, test, None, FALSE, output.error, None,
                        output.stdout)
          [] path = "result" ->
                Outcome(n, test, Some(output.result),
                        PyEq(output.result, test.expected), None,
                        output.runtime_ms, output.stdout)
          [] OTHER -> Failure(n, test, ExecutionError("'result'"))

---------------------------------------------------------------------------
(* How a spawned program can behave: its pipes never reach end-of-file    *)
(* (hangs), or it exits with a return code and what it wrote.  Whether    *)
(* the pipes ever close is fixed when it starts; what it wrote is seen    *)
(* when it exits.  A program that forks leaves a descendant in its        *)
(* process group that holds the inherited pipes open.                     *)

Behaviour(h, rc, err, dec) ==
    [hangs |-> h, forks |-> FALSE, returncode |-> rc, stderr |-> err,
     stdout |-> <<>>, decodable |-> dec, frames |-> <<>>]

Payload(p) == <<marker, Chunk("json", p, 0), marker>>

Returns1 == Behaviour(FALSE, 0, Payload("{result: 1}"), TRUE)
Returns2 == Behaviour(FALSE, 0, Payload("{result: 2}"), TRUE)
Returns1Slowly == Behaviour(FALSE, 0, Payload("{result: 1} in 70 ms"), TRUE)
Raises == Behaviour(FALSE, 0, Payload("{error: division}"), TRUE)
RaisesTLE == Behaviour(FALSE, 0, Payload("{error: TLE}"), TRUE)
LoopsForever == Behaviour(TRUE, 0, <<>>, TRUE)
\* os.fork(): the descendant sleeps with the pipes open, so communicate()
\* never completes, whether the direct child exits or not
ForksAndLingers == [LoopsForever EXCEPT !.forks = TRUE]
\* the same, but the call returns in the parent: the harness writes its
\* payload and exits while the descendant holds the pipes open
ReturnsAndLingers == [Returns1 EXCEPT !.hangs = TRUE, !.forks = TRUE]
Crashes ==
    Behaviour(FALSE, 1,
              <<TracebackHead, Chunk("frame", "/tmp/tmpab12cd.py", 29),
                Chunk("text", "MemoryError", 0)>>, TRUE)
\* code at the top level of the submission writes a line to the error
\* stream and then raises: the traceback is not the first line
WarnsThenCrashes ==
    Behaviour(FALSE, 1,
              <<Chunk("text", "warning", 0), TracebackHead,
                Chunk("frame", "/tmp/tmpab12cd.py", 29),
                Chunk("text", "MemoryError", 0)>>, TRUE)
ExitsSayingTLE ==
    Behaviour(FALSE, 1, <<Chunk("text", "Time Limit Exceeded", 0)>>, TRUE)
ExitsSilently == Behaviour(FALSE, 0, <<>>, TRUE)
WritesGarbage ==
    Behaviour(FALSE, 0, <<marker, Chunk("text", "not json", 0), marker>>, TRUE)
WritesBadBytes == Behaviour(FALSE, 0, <<>>, FALSE)
\* a submission that replaces json.dumps, or reads the marker from its own
\* program file, writes a payload of its choosing
ForgesNullError == Behaviour(FALSE, 0, Payload("{error: null}"), TRUE)
ForgesNumberError == Behaviour(FALSE, 0, Payload("{error: 1}"), TRUE)
ForgesNullRuntime ==
    Behaviour(FALSE, 0, Payload("{result: 1, runtime_ms: null}"), TRUE)
\* the submission raises an exception whose message is __file__, the path
\* of the temporary program file: str(e) goes into the payload as it is
RaisesItsPath == Behaviour(FALSE, 0, Payload("{error: __file__}"), TRUE)
ReturnsThenFails ==
    Behaviour(FALSE, 1,
              <<Chunk("text", "warning", 0)>> \o Payload("{result: 1}")
                  \o <<Chunk("path", "lib.py", 2)>>, TRUE)

\* What evaluating the expression in the harness can do: return a value
\* json.dumps can encode, return one it cannot (a set), or raise an
\* exception with a traceback.  The frames of a traceback are listed from
\* the outermost (the harness line) to the innermost.

\* json.dumps(result) raises TypeError inside the try statement of the
\* harness: the frames are line 329 and those of the json package
DumpsTraceback(text) ==
    <<ProgramFrame(text, "harness", HarnessDumpsLine), LibraryFrame(231),
      LibraryFrame(200), LibraryFrame(258), LibraryFrame(180)>>

\* a slip: json.dumps of the result is outside the try statement, and the
\* TypeError ends the program with a traceback and without a payload
HarnessWrites_DumpsOutsideTry(ev, offset, num_lines) ==
    CASE ev.kind = "returns" -> Payload("{result: 1}")
      [] ev.kind = "unencodable" ->
            <<TracebackHead,
              Chunk("frame", "/tmp/tmpab12cd.py",
                    offset + num_lines + 1 + HarnessDumpsLine),
              Chunk("text", "TypeError", 0)>>
      [] OTHER ->
            <<marker,
              Chunk("json", "{error: raised}", _line(ev.frames, offset, num_lines)),
              marker>>

\* lines 324-341: what the harness writes to the error stream
HarnessWrites(ev, offset, num_lines) ==
    CASE ev.kind = "returns" -> Payload("{result: 1}")
      [] ev.kind = "unencodable" ->
            <<marker,
              Chunk("json", "{error: not serializable}",
                    _line(ev.frames, offset, num_lines)),
              marker>>
      [] OTHER ->
            <<marker,
              Chunk("json", "{error: raised}", _line(ev.frames, offset, num_lines)),
              marker>>

\* the return code of a program that wrote this: 1 when it ended with a
\* traceback
ExitCodeOf(stderr) ==
    IF stderr # <<>> /\ stderr[1] = TracebackHead THEN 1 ELSE 0

\* line numbers of frames in files of the standard library
LibraryLines == {1, 28, 114, 355}

\* the tracebacks of exceptions raised while the expression is evaluated:
\* the harness line, then up to depth lines of the submitted code, then
\* nothing more, or a line of the prologue, of the helper library or of a
\* library file
Tracebacks(h, c, depth) ==
    LET text == wrapper(h, c)
        called == {ProgramFrame(text, "code", k) : k \in 1..(c.newlines + 1)}
        inner == {<<>>, <<ProgramFrame(text, "rlimit", 3)>>}
                    \cup {<<LibraryFrame(n)>> : n \in LibraryLines}
                    \cup (IF h
                          THEN {<<ProgramFrame(text, "helper", 1)>>,
                                <<ProgramFrame(text, "helper", HelperCodeLines)>>}
                          ELSE {})
    IN  {<<ProgramFrame(text, "harness", HarnessCallLine)>> \o mid \o last :
            mid \in SeqsUpTo(called, depth), last \in inner}

Evaluations(h, c, depth) ==
    {[kind |-> "returns", frames |-> <<>>],
     [kind |-> "unencodable", frames |-> DumpsTraceback(wrapper(h, c))]}
        \cup {[kind |-> "raises", frames |-> t] : t \in Tracebacks(h, c, depth)}

\* the program of a test whose evaluation does ev: the offset and the line
\* count are written into the harness (lines 335-336)
Runs(ev, h, c) ==
    LET written == HarnessWrites(ev, CountNewlines(pre_code(h)), c.newlines + 1)
    IN  [Behaviour(FALSE, ExitCodeOf(written), written, TRUE)
            EXCEPT !.frames = ev.frames]

\* the behaviours of the submissions run through a whole list of tests
CoreBehaviours ==
    {Returns1, Returns2, RaisesTLE, LoopsForever, ForksAndLingers}

AllBehaviours ==
    CoreBehaviours \cup {Raises, Crashes, ExitsSayingTLE, ExitsSilently,
                         WritesGarbage, WritesBadBytes, ReturnsThenFails,
                         ForgesNullError, ForgesNumberError, ForgesNullRuntime,
                         RaisesItsPath,
                         WarnsThenCrashes}

---------------------------------------------------------------------------
(* Inputs *)

\* a valid invocation expression: f(x)
ValidCall == <<"f", "(", "x", ")">>
\* a denylisted one: os.f()
UnsafeCall == <<"o", "s", ".", "f", "(", ")">>

TestCase(in, exp, call) ==
    [input |-> in, expected |-> exp, function_call |-> call]

TestPool ==
    {TestCase("a", PyInt(1), ValidCall), TestCase("b", PyInt(2), UnsafeCall)}

\* what the submission and the interpreter write to the error stream
\* besides the payload: text, a blank line, a traceback header, a traceback
\* frame in the user's code, an absolute path
NoiseChunks ==
    {Chunk("text", "warning", 0), Chunk("text", "\n", 0), TracebackHead,
     Chunk("frame", "/tmp/tmpab12cd.py", 29), Chunk("path", "lib.py", 2)}

\* what the harness writes between the markers (line 341), or what a
\* submission that forges the payload writes there
PayloadTexts ==
    {<<Chunk("json", p, 0)>> : p \in DOMAIN JsonTable}
        \cup {<<Chunk("text", "not json", 0)>>}

\* the programs that exit: with or without a payload, with any text before
\* and after it, with exit code 0 or 1
ExitingBehaviours ==
    {Behaviour(FALSE, rc, pre \o body \o post, TRUE) :
        rc \in {0, 1},
        pre \in SeqsUpTo(NoiseChunks, MaxNoise),
        post \in SeqsUpTo(NoiseChunks, MaxNoise),
        body \in {<<>>} \cup {<<marker>> \o t \o <<marker>> : t \in PayloadTexts}}

\* code of exactly the size ceiling, code one byte above it, and code of
\* fewer characters than the ceiling whose wide character takes it above
CodePool ==
    {[ascii |-> MAX_CODE_SIZE, wide |-> 0, newlines |-> 1],
     [ascii |-> MAX_CODE_SIZE + 1, wide |-> 0, newlines |-> 1],
     [ascii |-> MAX_CODE_SIZE - 1, wide |-> 1, newlines |-> 1]}

Fragments ==
    {<<"f">>, <<"(">>, <<")">>, <<"_">>, <<"o", "s">>, <<".">>, <<"\\">>,
     <<"n">>, <<"\n">>, <<";">>, <<"+">>, <<"U+00E9">>,
     <<"e", "v", "a", "l">>}

RECURSIVE Concat(_)
Concat(fs) == IF fs = <<>> THEN <<>> ELSE fs[1] \o Concat(Tail(fs))

Exprs == {Concat(fs) : fs \in SeqsUpTo(Fragments, MaxFrags)}

\* the call shapes of the problem catalog
\* f(**test_input)
KeywordCall ==
    <<"f", "(", "*", "*", "t", "e", "s", "t", "_", "i", "n", "p", "u", "t",
      ")">>

\* f(test_input['k'])
IndexedCall ==
    <<"f", "(", "t", "e", "s", "t", "_", "i", "n", "p", "u", "t", "[", "'",
      "k", "'", "]", ")">>

\* sorted([sorted(x) for x in f(**test_input)])
SortedCall ==
    <<"s", "o", "r", "t", "e", "d", "(", "[", "s", "o", "r", "t", "e", "d",
      "(", "x", ")", " ", "f", "o", "r", " ", "x", " ", "i", "n", " ", "f",
      "(", "*", "*", "t", "e", "s", "t", "_", "i", "n", "p", "u", "t", ")",
      "]", ")">>

CatalogCalls == {KeywordCall, IndexedCall, SortedCall}

---------------------------------------------------------------------------
(* The environment of the subprocess.  An environment is a set of          *)
(* <<name, value>> pairs with one pair per name.                           *)

\* key in os.environ
InEnviron(env, key) == \E p \in env : p[1] = key

\* os.environ[key]
EnvironValue(env, key) == (CHOOSE p \in env : p[1] = key)[2]

\* os.environ.get(key, default)
EnvironGet(env, key, default) ==
    IF InEnviron(env, key) THEN EnvironValue(env, key) ELSE default

\* the directories of the host in which a file can be created
UsableDirs == {"/tmp", "/var/tmp"}

\* tempfile.gettempdir(): the first of $TMPDIR, $TEMP, $TMP in which a file
\* can be created, else the first such directory of the platform's list
gettempdir(env) ==
    IF InEnviron(env, "TMPDIR") /\ EnvironValue(env, "TMPDIR") \in UsableDirs
    THEN EnvironValue(env, "TMPDIR")
    ELSE IF InEnviron(env, "TEMP") /\ EnvironValue(env, "TEMP") \in UsableDirs
    THEN EnvironValue(env, "TEMP")
    ELSE IF InEnviron(env, "TMP") /\ EnvironValue(env, "TMP") \in UsableDirs
    THEN EnvironValue(env, "TMP")
    ELSE "/tmp"

\* a slip: the interpreter's search path is carried over as well
_get_restricted_env_KeepsPythonPath(env) ==
    {<<"PATH", EnvironGet(env, "PATH", "/usr/bin:/bin")>>,
     <<"HOME", gettempdir(env)>>,
     <<"TMPDIR", gettempdir(env)>>,
     <<"LANG", EnvironGet(env, "LANG", "en_US.UTF-8")>>}
        \cup {p \in env : p[1] \in {"VIRTUAL_ENV", "CONDA_PREFIX", "PYTHONPATH"}}

\* _get_restricted_env
_get_restricted_env(env) ==
    {<<"PATH", EnvironGet(env, "PATH", "/usr/bin:/bin")>>,
     <<"HOME", gettempdir(env)>>,
     <<"TMPDIR", gettempdir(env)>>,
     <<"LANG", EnvironGet(env, "LANG", "en_US.UTF-8")>>}
        \cup {p \in env : p[1] \in {"VIRTUAL_ENV", "CONDA_PREFIX"}}

\* the values a variable of the host can have; a variable may also be unset
HostValues ==
    [name \in {"PATH", "HOME", "TMPDIR", "LANG", "VIRTUAL_ENV", "PYTHONPATH",
               "PYTHONSTARTUP", "TEMP"} |->
        CASE name = "PATH" -> {"/usr/bin", "/opt/bin:/usr/bin"}
          [] name = "HOME" -> {"/root"}
          [] name = "TMPDIR" -> {"/var/tmp"}
          [] name = "LANG" -> {"C.UTF-8"}
          [] name = "VIRTUAL_ENV" -> {"/srv/venv"}
          [] name = "PYTHONPATH" -> {"/srv/lib"}
          [] name = "PYTHONSTARTUP" -> {"/root/.pythonrc"}
          [] name = "TEMP" -> {"/var/tmp", "/missing"}]

\* a variable of the host: unset, or set to one of its values
SetOrUnset(name) == {{}} \cup {{<<name, v>>} : v \in HostValues[name]}

\* the host environments: every choice of set variables and of their values
HostEnvirons ==
    {a \cup b \cup c \cup d \cup e \cup f \cup g \cup h :
        a \in SetOrUnset("PATH"), b \in SetOrUnset("HOME"),
        c \in SetOrUnset("TMPDIR"), d \in SetOrUnset("LANG"),
        e \in SetOrUnset("VIRTUAL_ENV"), f \in SetOrUnset("PYTHONPATH"),
        g \in SetOrUnset("PYTHONSTARTUP"), h \in SetOrUnset("TEMP")}

---------------------------------------------------------------------------
(* State *)

\* proc: "running", "exited" (proc.returncode is set while communicate() is
\* still pending), "killed" (SIGKILL delivered, not yet reaped), "stuck"
\* (signalled, but not ended within the grace period), "reaped", "unseen"
\* (exited and reaped by the child watcher, whose callback has not yet set
\* proc.returncode); descendants: a forked descendant is alive in the
\* process group; stray: a signal went to a process group found under the
\* pid after the subprocess was reaped; wrote: what a process whose pipes
\* stay open has written to the error stream (it is never read)
NoProc ==
    [state |-> "none", hangs |-> FALSE, descendants |-> FALSE, env |-> {},
     stray |-> FALSE, wrote |-> <<>>]

\* what a process that has not exited has written
NoOutput == Behaviour(FALSE, 0, <<>>, TRUE)

NoOutcome == Failure(0, TestCase("", PyInt(0), <<>>), <<>>)

\* per test: was a temporary file written, was a process spawned, did the
\* wall-clock timeout fire, was SIGKILL sent to the process group, which
\* return statement produced the outcome, and what the process had written
\* when it exited
NoLog == [tmp_created |-> FALSE, spawned |-> FALSE, timed_out |-> FALSE,
          group_killed |-> FALSE, path |-> "none", out |-> NoOutput]

ShortCode == [ascii |-> 1, wide |-> 0, newlines |-> 1]

\* the arguments and locals of a call of run_tests that has not started
NewCall(id, c, tests) ==
    [call_id |-> id, code |-> c, test_cases |-> tests, pc |-> "call",
     results |-> <<>>, consecutive_tle |-> 0, summary |-> None,
     pending |-> NoOutcome, proc |-> NoProc, waited |-> 0, reap_waited |-> 0,
     log |-> [n \in 1..Len(tests) |-> NoLog]]

\* the executor has no other call
NoCall == [NewCall(0, ShortCode, <<>>) EXCEPT !.pc = "none"]

\* the arguments and locals of the running call
Frame ==
    [call_id |-> call_id, code |-> code, test_cases |-> test_cases, pc |-> pc,
     results |-> results, consecutive_tle |-> consecutive_tle,
     summary |-> summary, pending |-> pending, proc |-> proc,
     waited |-> waited, reap_waited |-> reap_waited, log |-> log]

\* a host with an ordinary environment, a call without the helper library,
\* and nothing stepped through inside the subprocess
HostEnviron == {<<"PATH", "/usr/bin">>, <<"LANG", "C.UTF-8">>, <<"HOME", "/root">>}
NoPrologue == [pc |-> "none"]
NoHelperCall == [pc |-> "none"]

InitAside ==
    /\ helpers = FALSE
    /\ environ = HostEnviron
    /\ rlimit = NoPrologue
    /\ heap = <<>>
    /\ helper_call = NoHelperCall

InitCall ==
    /\ call_id = 1
    /\ pc = "call"
    /\ results = <<>>
    /\ consecutive_tle = 0
    /\ summary = None
    /\ pending = NoOutcome
    /\ proc = NoProc
    /\ tmp_files = {}
    /\ waited = 0
    /\ reap_waited = 0
    /\ log = [n \in 1..Len(test_cases) |-> NoLog]

Init ==
    /\ code \in CodePool
    /\ submission = CoreBehaviours
    /\ test_cases \in SeqsUpTo(TestPool, MaxTests)
    /\ timeout = TimeoutSeconds
    /\ InitCall
    /\ InitAside
    /\ other = NoCall

\* one test, with every expression and every behaviour
InitOneTest ==
    /\ code = ShortCode
    /\ submission = AllBehaviours
    /\ test_cases \in
          {<<TestCase("a", PyInt(1), e)>> : e \in Exprs \cup CatalogCalls}
    /\ timeout = TimeoutSeconds
    /\ InitCall
    /\ InitAside
    /\ other = NoCall

\* one valid test, and a submission that exits in one of the ways above
\* unless it forks and lingers
InitExtract ==
    /\ code = ShortCode
    /\ submission \in {{b, ForksAndLingers} : b \in ExitingBehaviours}
    /\ test_cases \in {<<TestCase("a", PyInt(n), ValidCall)>> : n \in {1, 2}}
    /\ timeout = TimeoutSeconds
    /\ InitCall
    /\ InitAside
    /\ other = NoCall

\* one valid test of a submission of some lines, with or without the helper
\* library: evaluating the expression returns, or raises with one of the
\* tracebacks
InitHarness ==
    /\ helpers \in BOOLEAN
    /\ code \in {[ascii |-> 10, wide |-> 0, newlines |-> n] :
                    n \in 0..(MaxCodeLines - 1)}
    /\ submission \in {{Runs(ev, helpers, code), ForksAndLingers} :
                          ev \in Evaluations(helpers, code, MaxCallDepth)}
    /\ test_cases = <<TestCase("a", PyInt(1), ValidCall)>>
    /\ timeout = TimeoutSeconds
    /\ InitCall
    /\ other = NoCall
    /\ environ = HostEnviron
    /\ rlimit = NoPrologue
    /\ heap = <<>>
    /\ helper_call = NoHelperCall

\* one valid test on a host with any environment
InitEnv ==
    /\ code = ShortCode
    /\ submission = {Returns1, ForksAndLingers}
    /\ test_cases = <<TestCase("a", PyInt(1), ValidCall)>>
    /\ timeout = TimeoutSeconds
    /\ InitCall
    /\ other = NoCall
    /\ helpers = FALSE
    /\ environ \in HostEnvirons
    /\ rlimit = NoPrologue
    /\ heap = <<>>
    /\ helper_call = NoHelperCall

\* lists of up to n copies of a valid test
ValidTests(n) ==
    {[i \in 1..k |-> TestCase("a", PyInt(1), ValidCall)] : k \in 0..n}

\* a submission that returns, fast or slowly, or forks and lingers
SharedBehaviours == {Returns1, Returns1Slowly, ForksAndLingers}

\* a call that will be made again once it has returned
InitTwoCalls ==
    /\ code = ShortCode
    /\ submission = SharedBehaviours
    /\ test_cases \in ValidTests(MaxRepeatedTests)
    /\ timeout = TimeoutSeconds
    /\ InitCall
    /\ InitAside
    /\ other = NoCall

\* two calls made one after the other before either has run: the second,
\* with one test, waits for the event loop
InitConcurrent ==
    /\ code = ShortCode
    /\ submission = SharedBehaviours
    /\ test_cases \in ValidTests(MaxSharedTests)
    /\ timeout = TimeoutSeconds
    /\ InitCall
    /\ InitAside
    /\ other = NewCall(2, ShortCode, <<TestCase("b", PyInt(2), ValidCall)>>)

---------------------------------------------------------------------------
(* run_tests *)

\* line 221
IsOversize(c) == EncodedSize(c) > MAX_CODE_SIZE

\* lines 225-237
OversizeResults(tests) ==
    [i \in 1..Len(tests) |-> Failure(i, tests[i], OversizeError)]

\* line 247
is_tle(result) == StartsWith(OrEmpty(result.error), TLE)

\* line 247 raises AttributeError: (error or "") is a value without
\* startswith when the error is a true value that is not a string
StartswithRaises(result) ==
    result.error # None /\ ~IsStr(Get(result.error))

\* line 248
NextStreak(streak, result) == IF is_tle(result) THEN streak + 1 ELSE 0

\* a slip: > for >=
BailOut_OneLate(streak) == streak > max_consecutive_tle

\* line 250
BailOut(streak) == streak >= max_consecutive_tle

\* a slip: the last test is left without an outcome
SkippedResults_DropsLast(tests, skipped_start) ==
    [j \in 1..(Len(tests) - skipped_start - 1) |->
        Failure(skipped_start + j, tests[skipped_start + j], SkippedError)]

\* a slip: the skipped outcomes are numbered from skipped_start, not from
\* skipped_start + 1
SkippedResults_NumberedFromStart(tests, skipped_start) ==
    [j \in 1..(Len(tests) - skipped_start) |->
        Failure(skipped_start + j - 1, tests[skipped_start + j], SkippedError)]

\* lines 251-262: one outcome for each test after the first skipped_start
SkippedResults(tests, skipped_start) ==
    [j \in 1..(Len(tests) - skipped_start) |->
        Failure(skipped_start + j, tests[skipped_start + j], SkippedError)]

\* lines 265-266
Aggregate(res) ==
    LET passed == Cardinality({i \in 1..Len(res) : res[i].passed})
    IN  [passed |-> passed, failed |-> Len(res) - passed, results |-> res]

\* a slip: the test after the next one is started first, while there is one
Current_SkipsAhead ==
    IF Len(results) + 2 <= Len(test_cases) THEN Len(results) + 2
    ELSE Len(results) + 1

\* the number of the test _run_single_test is running
Current == Len(results) + 1

Logged(field, value) ==
    [log EXCEPT ![Current] = [log[Current] EXCEPT ![field] = value]]

\* a slip: the streak is kept on the executor, and a call starts with
\* the value the last call left
InitialStreak_KeptOnExecutor(left) == left

\* line 241: consecutive_tle is a local of the call
InitialStreak(left) == 0

\* lines 219-243: the size check and the start of the loop
RunTests ==
    /\ pc = "call"
    /\ IF IsOversize(code)
       THEN /\ summary' = Some([passed |-> 0, failed |-> Len(test_cases),
                                results |-> OversizeResults(test_cases)])
            /\ pc' = "done"
       ELSE IF test_cases = <<>>
       THEN /\ summary' = Some(Aggregate(<<>>))
            /\ pc' = "done"
       ELSE /\ summary' = summary
            /\ pc' = "loop"
    /\ results' = <<>>
    /\ consecutive_tle' = InitialStreak(consecutive_tle)
    /\ UNCHANGED <<host, child, call_id, other, code, submission, test_cases,
                   timeout, pending, proc, tmp_files, waited, reap_waited,
                   log>>

\* tempfile.NamedTemporaryFile(delete=False): a name no other file has; the
\* model names the file after the call and the test it is made for
tmp_path == <<call_id, Current>>

\* a slip: the temporary file is written before the expression is validated
FilesBeforeValidation(files, n, valid) == files \cup {n}

\* the temporary files after lines 270-347 for test n
FilesAfterValidation(files, n, valid) == IF valid THEN files \cup {n} ELSE files

\* lines 268-349: validation, then the wrapper is written to a temporary file
BeginTest ==
    /\ pc = "loop"
    /\ LET test == test_cases[Current]
           checked == _validate_function_call(test.function_call)
           files == FilesAfterValidation(tmp_files, tmp_path, checked.ok)
       IN  /\ tmp_files' = files
           /\ IF checked.ok
              THEN /\ pending' = pending
                   /\ pc' = "spawn"
                   /\ log' = Logged("tmp_created", tmp_path \in files)
              ELSE /\ pending' = Failure(Current, test, checked.value)
                   /\ pc' = "append"
                   /\ log' = [log EXCEPT ![Current] =
                                [@ EXCEPT !.tmp_created = tmp_path \in files,
                                          !.path = "validation"]]
    /\ proc' = NoProc
    /\ UNCHANGED <<host, child, call_id, other, code, submission, test_cases,
                   timeout, results, consecutive_tle, summary, waited,
                   reap_waited>>

\* lines 352-358: the subprocess starts
SpawnOk ==
    /\ pc = "spawn"
    /\ \E b \in submission :
          proc' = [state |-> "running", hangs |-> b.hangs,
                   descendants |-> b.forks,
                   env |-> _get_restricted_env(environ), stray |-> FALSE,
                   wrote |-> IF b.hangs THEN b.stderr ELSE <<>>]
    /\ waited' = 0
    /\ pc' = "wait"
    /\ log' = Logged("spawned", TRUE)
    /\ UNCHANGED <<host, child, call_id, other, code, submission, test_cases,
                   timeout, results, consecutive_tle, summary, pending,
                   tmp_files, reap_waited>>

\* lines 352-358 raise, then 454-473: no process to kill, the file is removed
SpawnFails ==
    /\ pc = "spawn"
    /\ pending' = Failure(Current, test_cases[Current],
                          ExecutionError("spawn failed"))
    /\ tmp_files' = tmp_files \ {tmp_path}
    /\ pc' = "append"
    /\ log' = Logged("path", "spawn_failed")
    /\ UNCHANGED <<host, child, call_id, other, code, submission, test_cases,
                   timeout, results, consecutive_tle, summary, proc, waited,
                   reap_waited>>

\* asyncio.wait_for(..., timeout=t) gives up once t seconds have passed
WaitExpired(w, t) == w >= t

\* a second passes while proc.communicate() is awaited
Tick ==
    /\ pc = "wait"
    /\ ~WaitExpired(waited, timeout)
    /\ waited' = waited + 1
    /\ UNCHANGED <<host, child, call_id, other, code, submission, test_cases,
                   timeout, pc, results, consecutive_tle, summary, pending,
                   proc, tmp_files, reap_waited, log>>

\* lines 361-365 and 381-452: the process exits in time and its output is
\* read; undecodable output raises and is handled by lines 454-468, where
\* the process has exited already; lines 469-473 remove the file
CommunicateDone ==
    /\ pc = "wait"
    /\ ~proc.hangs
    /\ proc' = [proc EXCEPT !.state = "reaped"]
    /\ \E b \in {x \in submission : ~x.hangs} :
          IF b.decodable
          THEN /\ pending' = ExtractOutcome(Current, test_cases[Current],
                                            code, b)
               /\ log' = [log EXCEPT ![Current] =
                            [@ EXCEPT !.path = ExtractPath(b), !.out = b]]
          ELSE /\ pending' = Failure(Current, test_cases[Current],
                                     ExecutionError("can't decode"))
               /\ log' = [log EXCEPT ![Current] =
                            [@ EXCEPT !.path = "decode_error", !.out = b]]
    /\ tmp_files' = tmp_files \ {tmp_path}
    /\ pc' = "append"
    /\ UNCHANGED <<host, child, call_id, other, code, submission, test_cases,
                   timeout, results, consecutive_tle, summary, waited,
                   reap_waited>>

\* the direct child exits on its own while a descendant holds the pipes
\* open: the child watcher sets proc.returncode, communicate() stays pending
ChildExits ==
    /\ pc = "wait"
    /\ proc.state = "running"
    /\ proc.descendants
    /\ proc' = [proc EXCEPT !.state = "exited"]
    /\ UNCHANGED <<host, child, call_id, other, code, submission, test_cases,
                   timeout, pc, results, consecutive_tle, summary, pending,
                   tmp_files, waited, reap_waited, log>>

\* line 510: nothing is signalled once proc.returncode is set
SignalsGroup(p) == p.state # "exited"

\* _kill_process_group: the processes after the call.  SIGKILL to the group
\* ends the child and its descendants; errors are swallowed, and a process
\* that was signalled may take longer than the grace period to end.  For a
\* process that was reaped while proc.returncode is still None, os.getpgid
\* raises ProcessLookupError (swallowed), or the pid belongs to another
\* process by now and os.killpg signals that one's group; proc.kill() polls
\* first and finds the process gone
_kill_process_group(p) ==
    IF ~SignalsGroup(p) THEN {p}
    ELSE IF p.state = "unseen"
    THEN {[p EXCEPT !.state = "exited"],
          [p EXCEPT !.state = "exited", !.stray = TRUE]}
    ELSE {[p EXCEPT !.state = "killed", !.descendants = FALSE],
          [p EXCEPT !.state = "stuck"]}

\* lines 366-368: the wall-clock timeout fires and _kill_process_group runs
TimeoutFires ==
    /\ pc = "wait"
    /\ WaitExpired(waited, timeout)
    /\ proc' \in _kill_process_group(proc)
    /\ reap_waited' = 0
    /\ pc' = "reap"
    /\ log' = [log EXCEPT ![Current] =
                 [@ EXCEPT !.timed_out = TRUE,
                           !.group_killed = SignalsGroup(proc)]]
    /\ UNCHANGED <<host, child, call_id, other, code, submission, test_cases,
                   timeout, results, consecutive_tle, summary, pending,
                   tmp_files, waited>>

\* a slip: proc.wait() is awaited without a timeout
ReapExpired_Never(w) == FALSE

\* asyncio.wait_for(proc.wait(), timeout=_KILL_WAIT_TIMEOUT) gives up
ReapExpired(w) == w >= _KILL_WAIT_TIMEOUT

\* a second passes in _wait_for_killed_process
ReapTick ==
    /\ pc = "reap"
    /\ ~ReapExpired(reap_waited)
    /\ reap_waited' = reap_waited + 1
    /\ UNCHANGED <<host, child, call_id, other, code, submission, test_cases,
                   timeout, pc, results, consecutive_tle, summary, pending,
                   proc, tmp_files, waited, log>>

\* a slip: after the kill, what the process had written is read, and a
\* payload found in it gives the outcome
Reaped_UsesOutput ==
    /\ pc = "reap"
    /\ proc.state \in {"killed", "exited"}
    /\ proc' = [proc EXCEPT !.state = "reaped"]
    /\ pending' = IF ResultJsonStr(proc.wrote) # None
                  THEN ExtractOutcome(Current, test_cases[Current], code,
                                      Behaviour(FALSE, 0, proc.wrote, TRUE))
                  ELSE Failure(Current, test_cases[Current],
                               TimeoutError(timeout))
    /\ tmp_files' = tmp_files \ {tmp_path}
    /\ pc' = "append"
    /\ log' = Logged("path", "timeout")
    /\ UNCHANGED <<host, child, call_id, other, code, submission, test_cases,
                   timeout, results, consecutive_tle, summary, waited,
                   reap_waited>>

\* lines 369-379 and 469-473: proc.wait() returns, for a killed process
\* once it is reaped and for an exited one at once
Reaped ==
    /\ pc = "reap"
    /\ proc.state \in {"killed", "exited"}
    /\ proc' = [proc EXCEPT !.state = "reaped"]
    /\ pending' = Failure(Current, test_cases[Current], TimeoutError(timeout))
    /\ tmp_files' = tmp_files \ {tmp_path}
    /\ pc' = "append"
    /\ log' = Logged("path", "timeout")
    /\ UNCHANGED <<host, child, call_id, other, code, submission, test_cases,
                   timeout, results, consecutive_tle, summary, waited,
                   reap_waited>>

\* a slip: the TimeoutError of the wait for the reap is not swallowed; it
\* leaves the handler of the timeout and is caught at line 459
ReapGivesUp_Propagates ==
    /\ pc = "reap"
    /\ ReapExpired(reap_waited)
    /\ pending' = Failure(Current, test_cases[Current], ExecutionError(""))
    /\ tmp_files' = tmp_files \ {tmp_path}
    /\ pc' = "append"
    /\ log' = Logged("path", "timeout")
    /\ UNCHANGED <<host, child, call_id, other, code, submission, test_cases,
                   timeout, results, consecutive_tle, summary, proc, waited,
                   reap_waited>>

\* lines 206-211, 370-379 and 469-473: the grace period ends first
ReapGivesUp ==
    /\ pc = "reap"
    /\ ReapExpired(reap_waited)
    /\ pending' = Failure(Current, test_cases[Current], TimeoutError(timeout))
    /\ tmp_files' = tmp_files \ {tmp_path}
    /\ pc' = "append"
    /\ log' = Logged("path", "timeout")
    /\ UNCHANGED <<host, child, call_id, other, code, submission, test_cases,
                   timeout, results, consecutive_tle, summary, proc, waited,
                   reap_waited>>

\* lines 245-266: the outcome is appended, the streak is updated, and the
\* call returns after the last test or when the streak reaches the threshold;
\* an error raised by line 247 leaves run_tests
LoopStep ==
    /\ pc = "append"
    /\ LET appended == Append(results, pending)
           streak == NextStreak(consecutive_tle, pending)
           filled == appended \o SkippedResults(test_cases, Len(appended))
       IN  IF StartswithRaises(pending)
           THEN /\ results' = appended
                /\ consecutive_tle' = consecutive_tle
                /\ summary' = summary
                /\ pc' = "raised"
           ELSE /\ consecutive_tle' = streak
                /\ IF BailOut(streak)
                   THEN /\ results' = filled
                        /\ summary' = Some(Aggregate(filled))
                        /\ pc' = "done"
                   ELSE IF Len(appended) = Len(test_cases)
                   THEN /\ results' = appended
                        /\ summary' = Some(Aggregate(appended))
                        /\ pc' = "done"
                   ELSE /\ results' = appended
                        /\ summary' = summary
                        /\ pc' = "loop"
    /\ pending' = NoOutcome
    /\ proc' = NoProc
    /\ waited' = 0
    /\ reap_waited' = 0
    /\ UNCHANGED <<host, child, call_id, other, code, submission, test_cases,
                   timeout, tmp_files, log>>

\* asyncio.CancelledError is raised into the call at the await it is
\* suspended on (lines 352, 361 and 369).  It is not an Exception, so neither
\* line 366 nor line 454 handles it: only the finally clause runs, and the
\* error leaves _run_single_test and run_tests.  A spawn that is cancelled
\* leaves no process.
Cancel ==
    /\ pc \in {"spawn", "wait", "reap"}
    /\ tmp_files' = tmp_files \ {tmp_path}
    /\ pc' = "cancelled"
    /\ log' = Logged("path", "cancelled")
    /\ UNCHANGED <<host, child, call_id, other, code, submission, test_cases,
                   timeout, results, consecutive_tle, summary, pending, proc,
                   waited, reap_waited>>

\* lines 344-346: the file is created, and f.write or f.close raises (the
\* wrapper cannot be encoded in the locale's encoding, or the disk is full).
\* The try statement starts at line 350, so nothing removes the file, and the
\* error leaves _run_single_test and run_tests.
WriteFails ==
    /\ pc = "loop"
    /\ _validate_function_call(test_cases[Current].function_call).ok
    /\ tmp_files' = tmp_files \cup {tmp_path}
    /\ pc' = "raised"
    /\ log' = [log EXCEPT ![Current] =
                 [@ EXCEPT !.tmp_created = TRUE, !.path = "write_failed"]]
    /\ UNCHANGED <<host, child, call_id, other, code, submission, test_cases,
                   timeout, results, consecutive_tle, summary, pending, proc,
                   waited, reap_waited>>

\* the caller calls run_tests on the same executor again, with the same
\* arguments, once the first call has returned: a new frame, whose locals are
\* set by lines 240-242
CallAgain ==
    /\ pc = "done"
    /\ other = NoCall
    /\ other' = Frame
    /\ call_id' = call_id + 1
    /\ pc' = "call"
    /\ summary' = None
    /\ log' = [n \in 1..Len(test_cases) |-> NoLog]
    /\ UNCHANGED <<host, child, code, submission, test_cases, timeout,
                   results, consecutive_tle, pending, proc, tmp_files, waited,
                   reap_waited>>

\* a slip: the streak is an attribute of the executor, which all calls share
ResumedStreak_OnExecutor(frame, current) == current

\* consecutive_tle is a local of the coroutine that resumes
ResumedStreak(frame, current) == frame.consecutive_tle

\* the event loop suspends the running call at an await (lines 352, 361,
\* 369), or after it has ended or before it has started, and resumes the
\* other call; the executor's configuration, the disk and the processes
\* stay as they are
Switch ==
    /\ pc \in {"call", "spawn", "wait", "reap", "done", "raised"}
    /\ other.pc \in {"call", "spawn", "wait", "reap"}
    /\ other' = Frame
    /\ call_id' = other.call_id
    /\ code' = other.code
    /\ test_cases' = other.test_cases
    /\ pc' = other.pc
    /\ results' = other.results
    /\ consecutive_tle' = ResumedStreak(other, consecutive_tle)
    /\ summary' = other.summary
    /\ pending' = other.pending
    /\ proc' = other.proc
    /\ waited' = other.waited
    /\ reap_waited' = other.reap_waited
    /\ log' = other.log
    /\ UNCHANGED <<host, child, submission, timeout, tmp_files>>

Next ==
    \/ RunTests
    \/ BeginTest
    \/ SpawnOk
    \/ SpawnFails
    \/ Tick
    \/ CommunicateDone
    \/ ChildExits
    \/ TimeoutFires
    \/ ReapTick
    \/ Reaped
    \/ ReapGivesUp
    \/ LoopStep

Spec == Init /\ [][Next]_vars

\* the event loop runs every step that can be taken
FairSpec == Spec /\ WF_vars(Next)

SpecOneTest == InitOneTest /\ [][Next]_vars

SpecExtract == InitExtract /\ [][Next]_vars

SpecEnv == InitEnv /\ [][Next]_vars

SpecHarness == InitHarness /\ [][Next]_vars

\* lists of valid tests of a submission that may fork a descendant which
\* keeps the pipes open, before or after the harness has written its payload
InitLingers ==
    /\ code = ShortCode
    /\ submission = {Returns1, LoopsForever, ForksAndLingers, ReturnsAndLingers}
    /\ test_cases \in ValidTests(MaxRepeatedTests)
    /\ timeout = TimeoutSeconds
    /\ InitCall
    /\ InitAside
    /\ other = NoCall

SpecLingers == InitLingers /\ [][Next]_vars

\* calls that may be cancelled, on a host where writing the file may fail
NextInterrupted ==
    \/ Next
    \/ Cancel
    \/ WriteFails

SpecInterrupted == Init /\ [][NextInterrupted]_vars

\* the subprocess exits and the thread of the child watcher reaps it; the
\* callback that sets proc.returncode waits for its turn in the event loop
WatcherReaps ==
    /\ pc = "wait"
    /\ proc.state = "running"
    /\ ~proc.hangs \/ proc.descendants
    /\ proc' = [proc EXCEPT !.state = "unseen"]
    /\ UNCHANGED <<host, child, call_id, other, code, submission, test_cases,
                   timeout, pc, results, consecutive_tle, summary, pending,
                   tmp_files, waited, reap_waited, log>>

\* the callback of the child watcher runs: proc.returncode is set
ReturncodeSet ==
    /\ pc = "wait"
    /\ proc.state = "unseen"
    /\ proc' = [proc EXCEPT !.state = "exited"]
    /\ UNCHANGED <<host, child, call_id, other, code, submission, test_cases,
                   timeout, pc, results, consecutive_tle, summary, pending,
                   tmp_files, waited, reap_waited, log>>

\* the exit of the subprocess interleaved with the handlers
NextReapRace ==
    \/ Next
    \/ WatcherReaps
    \/ ReturncodeSet

SpecReapRace == Init /\ [][NextReapRace]_vars

\* an executor whose caller repeats the call
NextTwoCalls ==
    \/ Next
    \/ CallAgain

SpecTwoCalls == InitTwoCalls /\ [][NextTwoCalls]_vars

\* an executor with two calls on one event loop
NextConcurrent ==
    \/ Next
    \/ Switch

SpecConcurrent == InitConcurrent /\ [][NextConcurrent]_vars

---------------------------------------------------------------------------
(* The resource-limit prologue of the synthesized program.  The platform   *)
(* of the subprocess fixes, for each limit, whether the resource module    *)
(* has its name, whether setrlimit refuses it (and with which exception),  *)
(* and its hard ceiling.                                                   *)

\* lines 196-200: the limits in the order of the prologue
LimitNames == {"memory", "cpu", "fsize", "nproc"}

Requested(l) ==
    CASE l = "memory" -> MEMORY_LIMIT_BYTES
      [] l = "cpu" -> CPU_TIME_LIMIT_SECONDS
      [] l = "fsize" -> MAX_FILE_SIZE
      [] OTHER -> 0

\* resource.RLIM_INFINITY on Linux
RLIM_INFINITY == -1

\* a hard ceiling below the requested memory, CPU and file-size limits
LowCeiling == 5

\* "unsupported": the resource module has no such name; "ValueError" and
\* "OSError": setrlimit refuses every value for the limit with that
\* exception (EINVAL and EPERM give ValueError, other errors OSError)
Platforms ==
    [kind : {"ok", "unsupported", "ValueError", "OSError"},
     hard : {RLIM_INFINITY, 0, LowCeiling}]

\* resource.setrlimit(res, (v, v)): "ok" or the exception it raises; a
\* value above the hard ceiling is not allowed
setrlimit(p, v) ==
    IF p.kind \in {"ValueError", "OSError"} THEN p.kind
    ELSE IF p.hard # RLIM_INFINITY /\ v > p.hard THEN "ValueError"
    ELSE "ok"

\* lines 188-195: the exception that leaves the function ("none" when it
\* returns) and the value it applied, if any
_safe_setrlimit(p, limit) ==
    LET first == setrlimit(p, limit)
        second == setrlimit(p, p.hard)
    IN  IF first = "ok" THEN [raised |-> "none", applied |-> Some(limit)]
        ELSE IF first # "ValueError" THEN [raised |-> first, applied |-> None]
        ELSE IF p.hard > 0 /\ p.hard < limit
        THEN IF second = "ok"
             THEN [raised |-> "none", applied |-> Some(p.hard)]
             ELSE [raised |-> second, applied |-> None]
        ELSE [raised |-> "none", applied |-> None]

\* a line '_safe_setrlimit(resource.RLIMIT_X, limit)': the argument
\* resource.RLIMIT_X is evaluated first
LimitLine(p, limit) ==
    IF p.kind = "unsupported"
    THEN [raised |-> "AttributeError", applied |-> None]
    ELSE _safe_setrlimit(p, limit)

\* the prologue starts on a platform
InitPrologue ==
    /\ code = ShortCode
    /\ submission = {Returns1, ForksAndLingers}
    /\ test_cases = <<TestCase("a", PyInt(1), ValidCall)>>
    /\ timeout = TimeoutSeconds
    /\ InitCall
    /\ other = NoCall
    /\ helpers = FALSE
    /\ environ = HostEnviron
    /\ rlimit \in {[pc |-> "memory", platform |-> pf,
                    applied |-> [l \in LimitNames |-> None],
                    raised |-> "none"] : pf \in [LimitNames -> Platforms]}
    /\ heap = <<>>
    /\ helper_call = NoHelperCall

\* the line of limit l runs: an exception in caught is swallowed by the
\* except clause around the line, any other ends the program with a
\* traceback before the submitted code is reached
SetLimit(l, next, caught) ==
    /\ rlimit.pc = l
    /\ LET r == LimitLine(rlimit.platform[l], Requested(l))
           swallowed == r.raised \in caught \cup {"none"}
       IN  rlimit' = [rlimit EXCEPT
                        !.pc = IF swallowed THEN next ELSE "aborted",
                        !.applied[l] = r.applied,
                        !.raised = IF swallowed THEN "none" ELSE r.raised]
    /\ UNCHANGED <<host, heap, helper_call, call_id, other, code, submission,
                   test_cases, timeout, pc, results, consecutive_tle,
                   summary, pending, proc, tmp_files, waited, reap_waited,
                   log>>

\* line 196
SetMemoryLimit == SetLimit("memory", "cpu", {})

\* line 197
SetCpuLimit == SetLimit("cpu", "fsize", {})

\* line 198
SetFileSizeLimit == SetLimit("fsize", "nproc", {})

\* lines 199-202
SetProcessLimit == SetLimit("nproc", "code", {"AttributeError", "OSError"})

\* lines 302-341: the rest of the program, the submitted code with it, runs
RunsSubmittedCode ==
    /\ rlimit.pc = "code"
    /\ rlimit' = [rlimit EXCEPT !.pc = "ran"]
    /\ UNCHANGED <<host, heap, helper_call, call_id, other, code, submission,
                   test_cases, timeout, pc, results, consecutive_tle,
                   summary, pending, proc, tmp_files, waited, reap_waited,
                   log>>

NextPrologue ==
    \/ SetMemoryLimit
    \/ SetCpuLimit
    \/ SetFileSizeLimit
    \/ SetProcessLimit
    \/ RunsSubmittedCode

SpecPrologue == InitPrologue /\ [][NextPrologue]_vars

---------------------------------------------------------------------------
(* The linked-list helpers of the helper library.  The heap is the         *)
(* sequence of the ListNode objects made so far; the address of a node,   *)
(* id(node), is its position in the heap, and 0 stands for None.  A Python *)
(* list that may be None is None or Some(sequence).                        *)

\* the values of the nodes
NodeValues == {0, 1, 2}

\* what a test gives list_node: None, the empty list, or a list of values
ListInputs == {None} \cup {Some(x) : x \in SeqsUpTo(NodeValues, MaxListLen)}

\* lines 75-78: ListNode(val)
ListNode(val) == [val |-> val, next |-> 0]

\* 'not values' for None and for a list
Falsy(values) == values = None \/ Get(values) = <<>>

\* a helper call that has not made a node yet; ret is where list_node
\* returns to
HelperCall(values) ==
    [pc |-> "list_node", values |-> values, head |-> 0, p |-> 0, i |-> 0,
     result |-> None, seen |-> {}, ret |-> "list_node_to_list", pos |-> -1,
     tail |-> 0, target |-> 0, k |-> 0]

InitHelpers ==
    /\ code = ShortCode
    /\ submission = {Returns1, ForksAndLingers}
    /\ test_cases = <<TestCase("a", PyInt(1), ValidCall)>>
    /\ timeout = TimeoutSeconds
    /\ InitCall
    /\ other = NoCall
    /\ helpers = TRUE
    /\ environ = HostEnviron
    /\ rlimit = NoPrologue
    /\ heap = <<>>
    /\ helper_call \in {HelperCall(v) : v \in ListInputs}

\* lines 87-90: list_node(values) returns None, or makes the head
list_node_start ==
    /\ helper_call.pc = "list_node"
    /\ IF Falsy(helper_call.values)
       THEN /\ helper_call' = [helper_call EXCEPT !.pc = helper_call.ret,
                                                  !.head = 0]
            /\ heap' = heap
       ELSE /\ heap' = Append(heap, ListNode(Get(helper_call.values)[1]))
            /\ helper_call' = [helper_call EXCEPT !.pc = "for",
                                                  !.head = Len(heap) + 1,
                                                  !.p = Len(heap) + 1,
                                                  !.i = 2]
    /\ UNCHANGED <<host, rlimit, call_id, other, code, submission,
                   test_cases, timeout, pc, results, consecutive_tle,
                   summary, pending, proc, tmp_files, waited, reap_waited,
                   log>>

\* lines 91-94: one round of 'for val in values[1:]'
list_node_loop ==
    /\ helper_call.pc = "for"
    /\ helper_call.i <= Len(Get(helper_call.values))
    /\ LET node == Len(heap) + 1
       IN  /\ heap' = [Append(heap,
                              ListNode(Get(helper_call.values)[helper_call.i]))
                          EXCEPT ![helper_call.p].next = node]
           /\ helper_call' = [helper_call EXCEPT !.p = node, !.i = @ + 1]
    /\ UNCHANGED <<host, rlimit, call_id, other, code, submission,
                   test_cases, timeout, pc, results, consecutive_tle,
                   summary, pending, proc, tmp_files, waited, reap_waited,
                   log>>

\* line 95: return head
list_node_return ==
    /\ helper_call.pc = "for"
    /\ helper_call.i > Len(Get(helper_call.values))
    /\ helper_call' = [helper_call EXCEPT !.pc = helper_call.ret]
    /\ UNCHANGED <<host, heap, rlimit, call_id, other, code, submission,
                   test_cases, timeout, pc, results, consecutive_tle,
                   summary, pending, proc, tmp_files, waited, reap_waited,
                   log>>

\* a slip: list_node_to_list(None) gives the empty list
list_node_to_list_start_EmptyForNone ==
    /\ helper_call.pc = "list_node_to_list"
    /\ helper_call' = [helper_call EXCEPT
                          !.pc = IF helper_call.head = 0 THEN "done"
                                 ELSE "while",
                          !.result = Some(<<>>),
                          !.seen = {},
                          !.p = helper_call.head]
    /\ UNCHANGED <<host, heap, rlimit, call_id, other, code, submission,
                   test_cases, timeout, pc, results, consecutive_tle,
                   summary, pending, proc, tmp_files, waited, reap_waited,
                   log>>

\* lines 98-101: list_node_to_list(head) returns None for None, or starts
\* with an empty result; p is the local 'head' of the function
list_node_to_list_start ==
    /\ helper_call.pc = "list_node_to_list"
    /\ IF helper_call.head = 0
       THEN helper_call' = [helper_call EXCEPT !.pc = "done", !.result = None]
       ELSE helper_call' = [helper_call EXCEPT !.pc = "while",
                                               !.result = Some(<<>>),
                                               !.seen = {},
                                               !.p = helper_call.head]
    /\ UNCHANGED <<host, heap, rlimit, call_id, other, code, submission,
                   test_cases, timeout, pc, results, consecutive_tle,
                   summary, pending, proc, tmp_files, waited, reap_waited,
                   log>>

\* a slip: the walk does not look at the nodes it has seen
Walks_IgnoresSeen(c) == c.p # 0

\* line 102: 'head and id(head) not in seen'
Walks(c) == c.p # 0 /\ c.p \notin c.seen

\* lines 102-105: one round of the while loop
list_node_to_list_loop ==
    /\ helper_call.pc = "while"
    /\ Walks(helper_call)
    /\ helper_call' = [helper_call EXCEPT
                          !.seen = @ \cup {helper_call.p},
                          !.result = Some(Append(Get(@), heap[helper_call.p].val)),
                          !.p = heap[helper_call.p].next]
    /\ UNCHANGED <<host, heap, rlimit, call_id, other, code, submission,
                   test_cases, timeout, pc, results, consecutive_tle,
                   summary, pending, proc, tmp_files, waited, reap_waited,
                   log>>

\* line 106: return result
list_node_to_list_return ==
    /\ helper_call.pc = "while"
    /\ ~Walks(helper_call)
    /\ helper_call' = [helper_call EXCEPT !.pc = "done"]
    /\ UNCHANGED <<host, heap, rlimit, call_id, other, code, submission,
                   test_cases, timeout, pc, results, consecutive_tle,
                   summary, pending, proc, tmp_files, waited, reap_waited,
                   log>>

NextHelpers ==
    \/ list_node_start
    \/ list_node_loop
    \/ list_node_return
    \/ list_node_to_list_start
    \/ list_node_to_list_loop
    \/ list_node_to_list_return

SpecHelpers == InitHelpers /\ [][NextHelpers]_vars

---------------------------------------------------------------------------
(* list_node_with_cycle, followed by list_node_to_list on what it returns  *)

\* the positions a test gives with a list: -1 for no cycle, or the index
\* of the node the last node is linked to
CyclePositions(values) ==
    IF Falsy(values) THEN {-1, 0} ELSE -1..(Len(Get(values)) - 1)

CycleCall(values, pos) ==
    [HelperCall(values) EXCEPT !.pc = "list_node_with_cycle",
                               !.ret = "if_pos", !.pos = pos]

InitCycle ==
    /\ code = ShortCode
    /\ submission = {Returns1, ForksAndLingers}
    /\ test_cases = <<TestCase("a", PyInt(1), ValidCall)>>
    /\ timeout = TimeoutSeconds
    /\ InitCall
    /\ other = NoCall
    /\ helpers = TRUE
    /\ environ = HostEnviron
    /\ rlimit = NoPrologue
    /\ heap = <<>>
    /\ helper_call \in {CycleCall(v, pos) :
                           v \in ListInputs, pos \in -1..(MaxListLen - 1)}
    /\ helper_call.pos \in CyclePositions(helper_call.values)

\* lines 109-111: None for no values, else head = list_node(values)
list_node_with_cycle_start ==
    /\ helper_call.pc = "list_node_with_cycle"
    /\ IF Falsy(helper_call.values)
       THEN helper_call' = [helper_call EXCEPT !.pc = "list_node_to_list",
                                               !.head = 0]
       ELSE helper_call' = [helper_call EXCEPT !.pc = "list_node"]
    /\ UNCHANGED <<host, heap, rlimit, call_id, other, code, submission,
                   test_cases, timeout, pc, results, consecutive_tle,
                   summary, pending, proc, tmp_files, waited, reap_waited,
                   log>>

\* lines 112-114: a negative pos returns the list as it is
list_node_with_cycle_pos ==
    /\ helper_call.pc = "if_pos"
    /\ IF helper_call.pos < 0
       THEN helper_call' = [helper_call EXCEPT !.pc = "list_node_to_list"]
       ELSE helper_call' = [helper_call EXCEPT !.pc = "tail",
                                               !.tail = helper_call.head]
    /\ UNCHANGED <<host, heap, rlimit, call_id, other, code, submission,
                   test_cases, timeout, pc, results, consecutive_tle,
                   summary, pending, proc, tmp_files, waited, reap_waited,
                   log>>

\* lines 115-116: one round of 'while tail.next'
list_node_with_cycle_tail ==
    /\ helper_call.pc = "tail"
    /\ heap[helper_call.tail].next # 0
    /\ helper_call' = [helper_call EXCEPT !.tail = heap[helper_call.tail].next]
    /\ UNCHANGED <<host, heap, rlimit, call_id, other, code, submission,
                   test_cases, timeout, pc, results, consecutive_tle,
                   summary, pending, proc, tmp_files, waited, reap_waited,
                   log>>

\* line 117: the loop is left at the last node; target = head
list_node_with_cycle_target ==
    /\ helper_call.pc = "tail"
    /\ heap[helper_call.tail].next = 0
    /\ helper_call' = [helper_call EXCEPT !.pc = "range",
                                          !.target = helper_call.head,
                                          !.k = 0]
    /\ UNCHANGED <<host, heap, rlimit, call_id, other, code, submission,
                   test_cases, timeout, pc, results, consecutive_tle,
                   summary, pending, proc, tmp_files, waited, reap_waited,
                   log>>

\* lines 118-119: one round of 'for _ in range(pos)'
list_node_with_cycle_step ==
    /\ helper_call.pc = "range"
    /\ helper_call.k < helper_call.pos
    /\ helper_call' = [helper_call EXCEPT
                          !.target = heap[helper_call.target].next,
                          !.k = @ + 1]
    /\ UNCHANGED <<host, heap, rlimit, call_id, other, code, submission,
                   test_cases, timeout, pc, results, consecutive_tle,
                   summary, pending, proc, tmp_files, waited, reap_waited,
                   log>>

\* lines 120-121: tail.next = target; return head
list_node_with_cycle_link ==
    /\ helper_call.pc = "range"
    /\ helper_call.k >= helper_call.pos
    /\ heap' = [heap EXCEPT ![helper_call.tail].next = helper_call.target]
    /\ helper_call' = [helper_call EXCEPT !.pc = "list_node_to_list"]
    /\ UNCHANGED <<host, rlimit, call_id, other, code, submission,
                   test_cases, timeout, pc, results, consecutive_tle,
                   summary, pending, proc, tmp_files, waited, reap_waited,
                   log>>

NextCycle ==
    \/ list_node_with_cycle_start
    \/ list_node_start
    \/ list_node_loop
    \/ list_node_return
    \/ list_node_with_cycle_pos
    \/ list_node_with_cycle_tail
    \/ list_node_with_cycle_target
    \/ list_node_with_cycle_step
    \/ list_node_with_cycle_link
    \/ list_node_to_list_start
    \/ list_node_to_list_loop
    \/ list_node_to_list_return

SpecCycle == InitCycle /\ [][NextCycle]_vars

\* the interpreter keeps running the helper
FairSpecCycle == SpecCycle /\ WF_vars(NextCycle)

---------------------------------------------------------------------------
(* The tree helpers.  A level-order list is a sequence of values that may  *)
(* be None: None or Some(v).  The heap holds the TreeNode objects; 0       *)
(* stands for None as a child.                                             *)

\* the entries of a level-order list
TreeValues == {None, Some(0), Some(1)}

\* what a test gives tree_node: None, or a list of up to MaxTreeLen entries
TreeInputs == {None} \cup {Some(x) : x \in SeqsUpTo(TreeValues, MaxTreeLen)}

\* lines 80-84: TreeNode(val)
TreeNode(val) == [val |-> val, left |-> 0, right |-> 0]

\* a slip: 'if values[i]' instead of 'if values[i] is not None'
IsNotNone_Truthy(v) == v # None /\ Get(v) # 0

\* lines 133 and 137: values[i] is not None
IsNotNone(v) == v # None

\* the locals of tree_node and tree_node_to_list; i is the Python index
TreeCall(values) ==
    [pc |-> "tree_node", values |-> values, root |-> 0, i |-> 0,
     queue |-> <<>>, result |-> None]

InitTree ==
    /\ code = ShortCode
    /\ submission = {Returns1, ForksAndLingers}
    /\ test_cases = <<TestCase("a", PyInt(1), ValidCall)>>
    /\ timeout = TimeoutSeconds
    /\ InitCall
    /\ other = NoCall
    /\ helpers = TRUE
    /\ environ = HostEnviron
    /\ rlimit = NoPrologue
    /\ heap = <<>>
    /\ helper_call \in {TreeCall(v) : v \in TreeInputs}

\* lines 124-129: None for no values, else the root and a queue with it
tree_node_start ==
    /\ helper_call.pc = "tree_node"
    /\ IF Falsy(helper_call.values)
       THEN /\ helper_call' = [helper_call EXCEPT !.pc = "tree_node_to_list",
                                                  !.root = 0]
            /\ heap' = heap
       ELSE /\ heap' = Append(heap, TreeNode(Get(helper_call.values)[1]))
            /\ helper_call' = [helper_call EXCEPT !.pc = "while queue and i",
                                                  !.root = Len(heap) + 1,
                                                  !.i = 1,
                                                  !.queue = <<Len(heap) + 1>>]
    /\ UNCHANGED <<host, rlimit, call_id, other, code, submission,
                   test_cases, timeout, pc, results, consecutive_tle,
                   summary, pending, proc, tmp_files, waited, reap_waited,
                   log>>

\* lines 130-140: one round of 'while queue and i < len(values)': the next
\* two entries are the children of the node at the front of the queue
tree_node_loop ==
    /\ helper_call.pc = "while queue and i"
    /\ helper_call.queue # <<>>
    /\ helper_call.i < Len(Get(helper_call.values))
    /\ LET values == Get(helper_call.values)
           i == helper_call.i
           node == Head(helper_call.queue)
           hasLeft == i < Len(values) /\ IsNotNone(values[i + 1])
           hasRight == i + 1 < Len(values) /\ IsNotNone(values[i + 2])
           left == Len(heap) + 1
           right == IF hasLeft THEN Len(heap) + 2 ELSE Len(heap) + 1
           made == (IF hasLeft THEN <<TreeNode(values[i + 1])>> ELSE <<>>)
                      \o (IF hasRight THEN <<TreeNode(values[i + 2])>> ELSE <<>>)
           queued == (IF hasLeft THEN <<left>> ELSE <<>>)
                        \o (IF hasRight THEN <<right>> ELSE <<>>)
       IN  /\ heap' = [heap \o made EXCEPT
                          ![node].left = IF hasLeft THEN left ELSE @,
                          ![node].right = IF hasRight THEN right ELSE @]
           /\ helper_call' = [helper_call EXCEPT
                                 !.queue = Tail(@) \o queued,
                                 !.i = i + 2]
    /\ UNCHANGED <<host, rlimit, call_id, other, code, submission,
                   test_cases, timeout, pc, results, consecutive_tle,
                   summary, pending, proc, tmp_files, waited, reap_waited,
                   log>>

\* line 141: return root
tree_node_return ==
    /\ helper_call.pc = "while queue and i"
    /\ ~(/\ helper_call.queue # <<>>
         /\ helper_call.i < Len(Get(helper_call.values)))
    /\ helper_call' = [helper_call EXCEPT !.pc = "tree_node_to_list"]
    /\ UNCHANGED <<host, heap, rlimit, call_id, other, code, submission,
                   test_cases, timeout, pc, results, consecutive_tle,
                   summary, pending, proc, tmp_files, waited, reap_waited,
                   log>>

\* lines 143-146: None for None, else an empty result and a queue with root
tree_node_to_list_start ==
    /\ helper_call.pc = "tree_node_to_list"
    /\ IF helper_call.root = 0
       THEN helper_call' = [helper_call EXCEPT !.pc = "done", !.result = None]
       ELSE helper_call' = [helper_call EXCEPT !.pc = "while queue",
                                               !.result = Some(<<>>),
                                               !.queue = <<helper_call.root>>]
    /\ UNCHANGED <<host, heap, rlimit, call_id, other, code, submission,
                   test_cases, timeout, pc, results, consecutive_tle,
                   summary, pending, proc, tmp_files, waited, reap_waited,
                   log>>

\* lines 147-154: one round of 'while queue'
tree_node_to_list_loop ==
    /\ helper_call.pc = "while queue"
    /\ helper_call.queue # <<>>
    /\ LET node == Head(helper_call.queue)
       IN  IF node # 0
           THEN helper_call' = [helper_call EXCEPT
                    !.result = Some(Append(Get(@), heap[node].val)),
                    !.queue = Tail(@) \o <<heap[node].left, heap[node].right>>]
           ELSE helper_call' = [helper_call EXCEPT
                    !.result = Some(Append(Get(@), None)),
                    !.queue = Tail(@)]
    /\ UNCHANGED <<host, heap, rlimit, call_id, other, code, submission,
                   test_cases, timeout, pc, results, consecutive_tle,
                   summary, pending, proc, tmp_files, waited, reap_waited,
                   log>>

\* line 155: the queue is empty; the trailing None entries are next
tree_node_to_list_drained ==
    /\ helper_call.pc = "while queue"
    /\ helper_call.queue = <<>>
    /\ helper_call' = [helper_call EXCEPT !.pc = "while result"]
    /\ UNCHANGED <<host, heap, rlimit, call_id, other, code, submission,
                   test_cases, timeout, pc, results, consecutive_tle,
                   summary, pending, proc, tmp_files, waited, reap_waited,
                   log>>

\* line 155: 'result and result[-1] is None'
EndsWithNone(r) == r # <<>> /\ r[Len(r)] = None

\* lines 155-156: result.pop()
tree_node_to_list_pop ==
    /\ helper_call.pc = "while result"
    /\ EndsWithNone(Get(helper_call.result))
    /\ helper_call' = [helper_call EXCEPT
                          !.result = Some(SubSeq(Get(@), 1, Len(Get(@)) - 1))]
    /\ UNCHANGED <<host, heap, rlimit, call_id, other, code, submission,
                   test_cases, timeout, pc, results, consecutive_tle,
                   summary, pending, proc, tmp_files, waited, reap_waited,
                   log>>

\* line 157: return result
tree_node_to_list_return ==
    /\ helper_call.pc = "while result"
    /\ ~EndsWithNone(Get(helper_call.result))
    /\ helper_call' = [helper_call EXCEPT !.pc = "done"]
    /\ UNCHANGED <<host, heap, rlimit, call_id, other, code, submission,
                   test_cases, timeout, pc, results, consecutive_tle,
                   summary, pending, proc, tmp_files, waited, reap_waited,
                   log>>

NextTree ==
    \/ tree_node_start
    \/ tree_node_loop
    \/ tree_node_return
    \/ tree_node_to_list_start
    \/ tree_node_to_list_loop
    \/ tree_node_to_list_drained
    \/ tree_node_to_list_pop
    \/ tree_node_to_list_return

SpecTree == InitTree /\ [][NextTree]_vars

---------------------------------------------------------------------------
(* Notions the properties are stated with *)

Returned == summary # None

\* the size of the code in bytes: one per ASCII character, three per wide one
Utf8Bytes == code.ascii + 3 * code.wide

\* the outcome's error text begins with the Time-Limit-Exceeded indicator
SaysTLE(o) ==
    /\ o.error # None
    /\ Len(Get(o.error)) >= 1
    /\ Get(o.error)[1] = "Time Limit Exceeded"

IsSkipped(o) ==
    /\ ~o.passed /\ o.actual = None /\ o.runtime_ms = None
    /\ o.error = Some(<<"Skipped - ", "3", " consecutive ", "Time Limit Exceeded">>)

\* the pattern occurs somewhere in the expression
Occurs(pattern, expr) ==
    \E i \in 1..Len(expr) : \E j \in i..Len(expr) : SubSeq(expr, i, j) = pattern

\* the number of tests, ending with test k, whose wall-clock timeout fired
\* one after the other
RECURSIVE TimeoutRun(_)
TimeoutRun(k) ==
    IF k = 0 \/ ~log[k].timed_out THEN 0 ELSE 1 + TimeoutRun(k - 1)

\* the tests whose pipeline was started
Started == {n \in 1..Len(test_cases) : log[n].path # "none" \/ log[n].tmp_created}

---------------------------------------------------------------------------
(* Properties *)

\* C1: every returned summary has one outcome per test case, passed is the
\* number of outcomes with passed = true, and passed + failed is the number
\* of outcomes.
C1_SummaryIsComplete ==
    Returned =>
        LET s == Get(summary)
        IN  /\ Len(s.results) = Len(test_cases)
            /\ s.passed = Cardinality({i \in 1..Len(s.results) : s.results[i].passed})
            /\ s.passed + s.failed = Len(s.results)

\* a call that bailed out after three tests and skipped the fourth
C1_Witness ==
    /\ Returned
    /\ Len(test_cases) = 4
    /\ Get(summary).passed = 0 /\ Get(summary).failed = 4
    /\ IsSkipped(Get(summary).results[4])

\* C2: in every returned summary outcome i has test_num i and the input and
\* expected value of test case i.
C2_OutcomesInOrder ==
    Returned =>
        \A i \in 1..Len(Get(summary).results) :
            LET o == Get(summary).results[i]
            IN  /\ o.test_num = i
                /\ i <= Len(test_cases)
                /\ o.input = test_cases[i].input
                /\ o.expected = test_cases[i].expected

\* a summary whose first tests timed out and whose skipped fourth outcome
\* carries the input of the fourth test case, which differs from the first
C2_Witness ==
    /\ Returned
    /\ Len(test_cases) = 4
    /\ test_cases[4].input # test_cases[1].input
    /\ log[1].path = "timeout"
    /\ IsSkipped(Get(summary).results[4])
    /\ Get(summary).results[4].input = test_cases[4].input

\* C3: the consecutive-timeout counter is the number of timeouts in a row
\* that end with the last executed test (0 after any outcome that is not a
\* timeout), and the tests executed are those up to and including the first
\* one at which that number reaches 3, or all of them.
C3_StreakCountsTimeouts ==
    /\ pc \in {"loop", "done"} => consecutive_tle = TimeoutRun(Cardinality(Started))
    /\ (Returned /\ Utf8Bytes <= MAX_CODE_SIZE) =>
          \/ Started = 1..Len(test_cases) /\ \A k \in 1..(Len(test_cases) - 1) : TimeoutRun(k) < 3
          \/ \E k \in 1..Len(test_cases) :
                /\ Started = 1..k
                /\ TimeoutRun(k) = 3
                /\ \A m \in 1..(k - 1) : TimeoutRun(m) < 3

\* C4: once three outcomes in a row say Time Limit Exceeded, no later test
\* gets a temporary file or a process, and every later test has the skipped
\* outcome.
C4_NothingRunsAfterBailOut ==
    \A k \in 3..Len(results) :
        (SaysTLE(results[k - 2]) /\ SaysTLE(results[k - 1]) /\ SaysTLE(results[k])) =>
            /\ Len(results) = Len(test_cases)
            /\ \A n \in (k + 1)..Len(test_cases) :
                  /\ ~log[n].tmp_created
                  /\ ~log[n].spawned
                  /\ IsSkipped(results[n])

\* three timeouts, then a skipped test
C4_Witness ==
    /\ Returned
    /\ Len(test_cases) = 4
    /\ \A n \in 1..3 : log[n].timed_out
    /\ IsSkipped(results[4])
    /\ ~log[4].spawned

\* C5: an outcome says Time Limit Exceeded exactly when the wall-clock
\* timeout fired for its test.
C5_TLEIffTimeoutFired ==
    \A n \in 1..Len(results) : SaysTLE(results[n]) <=> log[n].timed_out

\* C6: code of more than 51200 bytes is rejected without validating an
\* expression, writing a file or spawning a process, every outcome being the
\* same failure; code of at most 51200 bytes is never rejected on size.
C6_SizeCeiling ==
    /\ Utf8Bytes > MAX_CODE_SIZE =>
          /\ \A n \in 1..Len(test_cases) : log[n] = NoLog
          /\ tmp_files = {}
          /\ pc \in {"call", "done"}
          /\ pc = "done" =>
                /\ Returned
                /\ Len(Get(summary).results) = Len(test_cases)
                /\ \A i \in 1..Len(Get(summary).results) :
                      LET o == Get(summary).results[i]
                      IN  /\ ~o.passed /\ o.actual = None /\ o.runtime_ms = None
                          /\ o.error = Some(<<"Code exceeds maximum size of ", "50", "KB">>)
    /\ Utf8Bytes <= MAX_CODE_SIZE =>
          /\ \A i \in 1..Len(results) :
                results[i].error # Some(<<"Code exceeds maximum size of ", "50", "KB">>)
          /\ (Returned /\ test_cases # <<>>) => Started # {}

\* oversize code with no more than 51200 characters, rejected for two tests
C6_Witness ==
    /\ pc = "done"
    /\ Utf8Bytes > MAX_CODE_SIZE
    /\ code.ascii + code.wide <= MAX_CODE_SIZE
    /\ Len(Get(summary).results) >= 2

\* C7: a test whose expression fails validation gets its outcome (the
\* validation message, no actual value, no runtime) without a temporary file
\* or a process, and the test after it is still run.
C7_ValidationFailureIsLocal ==
    \A n \in 1..Len(results) :
        LET checked == _validate_function_call(test_cases[n].function_call)
        IN  (~IsSkipped(results[n]) /\ ~checked.ok) =>
                /\ ~log[n].tmp_created
                /\ ~log[n].spawned
                /\ ~results[n].passed
                /\ results[n].actual = None
                /\ results[n].runtime_ms = None
                /\ results[n].error = Some(checked.value)
                /\ (Returned /\ n < Len(test_cases)) =>
                      /\ ~IsSkipped(results[n + 1])
                      /\ n + 1 \in Started

\* a rejected first test followed by a test that ran in a process
C7_Witness ==
    /\ Returned
    /\ Len(test_cases) >= 2
    /\ log[1].path = "validation"
    /\ log[2].spawned /\ log[2].path = "result"

\* the first denylisted substring, in denylist order, that occurs in the
\* expression of the only test
FirstDenylisted ==
    LET expr == test_cases[1].function_call
        hits == {k \in 1..Len(_DANGEROUS_PATTERNS) : Occurs(_DANGEROUS_PATTERNS[k], expr)}
    IN  IF hits = {} THEN <<>>
        ELSE _DANGEROUS_PATTERNS[CHOOSE k \in hits : \A m \in hits : k <= m]

\* C8: an expression in which a denylisted substring occurs anywhere is
\* rejected before a file is written or a process is spawned, and the error
\* names the first denylisted substring (in denylist order) that occurs.
C8_DenylistedIsRejected ==
    FirstDenylisted # <<>> =>
        /\ pc \in {"call", "loop", "append", "done"}
        /\ tmp_files = {}
        /\ ~log[1].spawned /\ ~log[1].tmp_created
        /\ pc \in {"append", "done"} =>
              LET o == IF pc = "append" THEN pending ELSE results[1]
              IN  /\ ~o.passed
                  /\ o.error = Some(<<"Unsafe function_call expression: contains '">>
                                    \o FirstDenylisted \o <<"'">>)

\* the expression fos. was rejected for the os. inside it
C8_Witness ==
    /\ pc = "done"
    /\ test_cases[1].function_call = <<"f", "o", "s", ".">>
    /\ results[1].error =
          Some(<<"Unsafe function_call expression: contains '", "o", "s", ".", "'">>)

\* C9: an expression that contains a newline character or a ';' is rejected
\* by the validator: its test gets a validation failure and nothing is run.
C9_NewlineAndSemicolonRejected ==
    (\E i \in 1..Len(test_cases[1].function_call) :
        test_cases[1].function_call[i] \in {"\n", ";"}) =>
        /\ pc \in {"call", "loop", "append", "done"}
        /\ log[1].path \in {"none", "validation"}

\* C10: the call returns, however the subprocesses behave; no test waits
\* longer than the timeout for completion nor longer than the grace period
\* for the reap, and the outcome of a test whose process never exits on its
\* own is the Time-Limit-Exceeded failure.
C10_HangingTestTimesOut ==
    /\ waited <= timeout
    /\ reap_waited <= _KILL_WAIT_TIMEOUT
    /\ (pc = "append" /\ proc.state # "none" /\ proc.hangs) =>
          /\ ~pending.passed
          /\ pending.actual = None
          /\ SaysTLE(pending)
          /\ log[Current].timed_out

C10_ReturnsInBoundedTime == []C10_HangingTestTimesOut /\ <>(pc = "done")

\* a process that never exits and that the kill did not end: the grace
\* period ran out and the test has its timeout outcome
C10_Witness ==
    /\ pc = "append"
    /\ proc.hangs /\ proc.state = "stuck"
    /\ waited = timeout /\ reap_waited = _KILL_WAIT_TIMEOUT
    /\ SaysTLE(pending)

\* C11: whenever the wall-clock timeout fired for a test, SIGKILL was sent to
\* the process group of its subprocess before the timeout outcome was
\* returned, whether or not the direct child had exited on its own.
C11_TimeoutKillsGroup ==
    \A n \in 1..Len(test_cases) :
        (log[n].timed_out /\ log[n].path = "timeout") => log[n].group_killed

\* C13: when the per-test run of a timed-out test has returned (the next
\* test is about to be spawned, or the summary returned), its process has
\* been reaped and no process of its group is alive.
C13_TimedOutProcessIsGone ==
    (pc = "append" /\ log[Current].timed_out) =>
        /\ proc.state = "reaped"
        /\ ~proc.descendants

\* C12: whenever control has left the per-test run of a test whose process
\* was spawned (an outcome was produced, or the awaiting call was cancelled),
\* the process is not running: it has exited, or the kill-and-reap sequence
\* was applied to it.
C12_NoProcessOutlivesItsRun ==
    (pc \in {"append", "cancelled"} /\ log[Current].spawned) =>
        /\ proc.state # "running"
        /\ proc.state \in {"exited", "reaped"} \/ log[Current].group_killed

\* C14: a temporary file exists only while its test's per-test run is in
\* progress: once the run has ended, on any path, the file is gone, and the
\* files of earlier tests never accumulate.
C14_TempFileIsRemoved ==
    \A f \in tmp_files :
        f = <<call_id, Current>> /\ pc \in {"spawn", "wait", "reap"}

\* the ways the submission of a spawned test can fail
SubmissionFailures ==
    {"timeout", "process_failure", "no_result", "parse_failure",
     "runtime_exception", "key_error", "decode_error"}

\* C15: whatever the submission does, run_tests does not raise to its
\* caller, and a test whose submission failed has an outcome with
\* passed = false and an error that is not null.
C15_SubmissionFailuresAreOutcomes ==
    /\ pc # "raised"
    /\ \A n \in 1..Len(results) :
          log[n].path \in SubmissionFailures =>
              ~results[n].passed /\ results[n].error # None

\* what the process of the test whose outcome is being returned wrote
Written == log[Current].out

\* the per-test run is returning the outcome of a process that exited in
\* time and whose output could be decoded
ProcessExited ==
    /\ pc = "append"
    /\ log[Current].spawned /\ ~log[Current].timed_out
    /\ Written.decodable

\* where the error stream holds a copy of the marker
MarkersWritten ==
    {i \in 1..Len(Written.stderr) : Written.stderr[i].kind = "marker"}

PayloadFound == Cardinality(MarkersWritten) >= 2

\* the text between the first two copies of the marker
BetweenMarkers ==
    LET first == CHOOSE i \in MarkersWritten : \A k \in MarkersWritten : i <= k
        second == CHOOSE j \in MarkersWritten \ {first} :
                      \A k \in MarkersWritten \ {first} : j <= k
    IN  SubSeq(Written.stderr, first + 1, second - 1)

PayloadParses ==
    /\ PayloadFound
    /\ Len(BetweenMarkers) = 1
    /\ BetweenMarkers[1].kind = "json"
    /\ BetweenMarkers[1].text \in DOMAIN JsonTable

\* the dict the payload stands for
Parsed == JsonTable[BetweenMarkers[1].text]

NoValue(o) == o.actual = None /\ ~o.passed /\ o.runtime_ms = None

\* C16: for a process that exited, no payload and a non-zero exit give the
\* sanitized error text (the generic message when it is empty); no payload
\* and exit 0 give 'No result received from execution'; a payload that is not
\* JSON gives 'Failed to parse execution result'; a payload with an 'error'
\* key gives that message and the payload's stdout; in all four cases actual
\* and runtime_ms are null and passed is false.
C16_ExtractorMapping ==
    ProcessExited =>
        LET text == _sanitize_stderr(Written.stderr, user_code_offset,
                                     user_code_num_lines(code))
        IN  /\ (~PayloadFound /\ Written.returncode # 0) =>
                  /\ NoValue(pending)
                  /\ pending.error =
                        Some(IF text # <<>> THEN text
                             ELSE <<"Process exited with non-zero status">>)
            /\ (~PayloadFound /\ Written.returncode = 0) =>
                  /\ NoValue(pending)
                  /\ pending.error = Some(<<"No result received from execution">>)
            /\ (PayloadFound /\ ~PayloadParses) =>
                  /\ NoValue(pending)
                  /\ pending.error = Some(<<"Failed to parse execution result">>)
            /\ (PayloadParses /\ "error" \in Parsed.keys) =>
                  /\ NoValue(pending)
                  /\ pending.error = Parsed.error
                  /\ pending.stdout = Parsed.stdout

\* a process that wrote an error payload and then exited with code 1: the
\* outcome carries the payload's message, not the process failure
C16_Witness ==
    /\ ProcessExited
    /\ Written.returncode = 1
    /\ PayloadParses /\ BetweenMarkers[1].text = "{error: division}"
    /\ pending.error = Some(<<"division by zero", " (line 2)">>)

\* C17: when the error stream holds the payload between two copies of the
\* marker and any other text before and after it (without the marker), the
\* payload the extractor recovers is the text between the markers, and the
\* outcome is the outcome of the same process writing the payload alone.
C17_NoiseDoesNotMoveThePayload ==
    (ProcessExited /\ Cardinality(MarkersWritten) = 2) =>
        /\ ResultJsonStr(Written.stderr) = Some(BetweenMarkers)
        /\ pending =
              ExtractOutcome(Current, test_cases[Current], code,
                             [Written EXCEPT !.stderr =
                                 <<marker>> \o BetweenMarkers \o <<marker>>])

\* a warning before the payload and a path after it, from a process that
\* exited with code 1: the test passes on the payload
C17_Witness ==
    /\ ProcessExited
    /\ Written.returncode = 1
    /\ Written.stderr =
          <<Chunk("text", "warning", 0), marker, Chunk("json", "{result: 1}", 0),
            marker, Chunk("path", "lib.py", 2)>>
    /\ pending.passed /\ pending.actual = Some(PyInt(1))

Timeless(chunk) ==
    IF chunk.text = "{result: 1} in 70 ms"
    THEN [chunk EXCEPT !.text = "{result: 1}"]
    ELSE chunk

\* the subprocess of a test behaved the same in two runs, but for the
\* runtime it measured
SameRun(a, b) ==
    /\ a.spawned = b.spawned /\ a.timed_out = b.timed_out /\ a.path = b.path
    /\ a.out.returncode = b.out.returncode
    /\ Len(a.out.stderr) = Len(b.out.stderr)
    /\ \A i \in 1..Len(a.out.stderr) :
          Timeless(a.out.stderr[i]) = Timeless(b.out.stderr[i])

WithoutRuntime(res) ==
    [i \in 1..Len(res) |-> [res[i] EXCEPT !.runtime_ms = None]]

\* C19: the second of two calls with the same code and test cases starts
\* with a timeout streak of zero, and when every test that ran in both calls
\* behaved the same in both, the two summaries are identical except for
\* runtime_ms.
C19_RepeatedCallIsIdentical ==
    call_id = 2 =>
        /\ (pc = "loop" /\ results = <<>>) => consecutive_tle = 0
        /\ ( /\ pc = "done" /\ other.pc = "done"
             /\ \A n \in 1..Len(test_cases) :
                   (other.log[n].path # "none" /\ log[n].path # "none") =>
                       SameRun(other.log[n], log[n]) ) =>
              /\ Get(summary).passed = Get(other.summary).passed
              /\ Get(summary).failed = Get(other.summary).failed
              /\ WithoutRuntime(Get(summary).results) =
                    WithoutRuntime(Get(other.summary).results)

\* the first call ended on two timeouts in a row, and in the second call
\* the same two tests timed out again: the second one is run, not skipped as
\* it would be after a third timeout in a row
C19_Witness ==
    /\ call_id = 2 /\ pc = "done" /\ other.pc = "done"
    /\ Len(test_cases) = 2
    /\ other.consecutive_tle = 2
    /\ \A n \in 1..2 : other.log[n].timed_out /\ log[n].timed_out
    /\ Get(summary).results = Get(other.summary).results
    /\ ~IsSkipped(Get(summary).results[2])

\* the outcome of test n of a call, from what its own subprocess did
OwnOutcome(f, n) ==
    LET l == f.log[n]
        test == f.test_cases[n]
    IN  CASE l.path = "spawn_failed" ->
                Failure(n, test, <<"Execution error: ", "spawn failed">>)
          [] l.path = "timeout" ->
                Failure(n, test, <<"Time Limit Exceeded", " (",
                                   ToString(timeout), "s)">>)
          [] OTHER -> ExtractOutcome(n, test, f.code, l.out)

\* the outcomes of tests n, n + 1, ... of a call that runs alone and has
\* seen streak timeouts in a row before test n
RECURSIVE ResultsAlone(_, _, _)
ResultsAlone(f, n, streak) ==
    IF n > Len(f.test_cases) THEN <<>>
    ELSE LET o == OwnOutcome(f, n)
             now == IF SaysTLE(o) THEN streak + 1 ELSE 0
         IN  IF now >= 3
             THEN <<o>> \o
                  [j \in 1..(Len(f.test_cases) - n) |->
                      Failure(n + j, f.test_cases[n + j],
                              <<"Skipped - ", "3", " consecutive ",
                                "Time Limit Exceeded">>)]
             ELSE <<o>> \o ResultsAlone(f, n + 1, now)

\* the call has its own temporary file while one of its tests is running
OwnsItsFile(f) ==
    f.pc \in {"spawn", "wait", "reap"} =>
        <<f.call_id, Len(f.results) + 1>> \in tmp_files

\* C20: of two calls interleaved at their awaits, each has its own
\* temporary file while a test of it runs (no cleanup of the other call
\* removes it), and each returns the summary it returns alone: every
\* outcome is the one its own subprocess gives, and tests are skipped
\* exactly after three timeouts in a row of the same call.
C20_ConcurrentCallsAreIndependent ==
    \A f \in {Frame, other} :
        /\ OwnsItsFile(f)
        /\ f.pc = "done" =>
              /\ Get(f.summary).results = ResultsAlone(f, 1, 0)
              /\ Get(f.summary).passed =
                    Cardinality({i \in 1..Len(f.test_cases) :
                                    ResultsAlone(f, 1, 0)[i].passed})

\* the first call timed out twice, with a timeout of the second call in
\* between, and went on to run its third test
C20_Witness ==
    /\ call_id = 1 /\ pc = "done" /\ other.pc = "done"
    /\ Len(test_cases) = 3
    /\ log[1].timed_out /\ log[2].timed_out /\ other.log[1].timed_out
    /\ log[3].path = "result"
    /\ Get(summary).passed = 1

\* the tests of the call whose subprocess is alive and awaited by the call
Awaited ==
    {n \in 1..Len(test_cases) :
        /\ log[n].spawned
        /\ log[n].path = "none"
        /\ pc \in {"wait", "reap"}}

\* the outcome of a test whose process exited in time, from what that
\* process wrote
OutcomeOfItsProcess(n) ==
    IF log[n].path = "decode_error"
    THEN Failure(n, test_cases[n], <<"Execution error: ", "can't decode">>)
    ELSE ExtractOutcome(n, test_cases[n], code, log[n].out)

\* C21: the tests of a call are processed one at a time in input order: a
\* test is started (validated, given a file, spawned) only when the outcomes
\* of all tests before it have been appended, the call awaits at most one of
\* its subprocesses, and the outcome of a test whose process exited in time
\* is the one its own process gives, whether or not a test before it timed
\* out.
C21_TestsRunOneAtATime ==
    /\ \A n \in 1..Len(test_cases) :
          (log[n].tmp_created \/ log[n].path # "none") =>
              /\ n <= Len(results) + 1
              /\ \A k \in 1..(n - 1) :
                    log[k].tmp_created \/ log[k].path # "none"
    /\ Cardinality(Awaited) <= 1
    /\ \A n \in 1..Len(results) :
          (log[n].spawned /\ ~log[n].timed_out) =>
              results[n] = OutcomeOfItsProcess(n)

\* the first test timed out, and the second, started after the first had
\* its outcome, passed on what its process returned
C21_Witness ==
    /\ Returned
    /\ Len(test_cases) = 2
    /\ log[1].timed_out /\ SaysTLE(results[1])
    /\ log[2].path = "result" /\ results[2].passed
    /\ results[2].runtime_ms = Some(7)

\* the names the environment of a subprocess may hold
AllowedNames == {"PATH", "HOME", "TMPDIR", "LANG", "VIRTUAL_ENV", "CONDA_PREFIX"}

\* the host environment without the variables whose names are not in keep
OnlyNames(keep) == {p \in environ : p[1] \in keep}

\* the environment of the subprocess on a host whose environment is env:
\* PATH and LANG of the host or their defaults, HOME and TMPDIR the
\* temporary directory dir, and the markers of a virtual environment
ExpectedEnv(env, dir) ==
    {<<"PATH", IF \E p \in env : p[1] = "PATH"
               THEN (CHOOSE p \in env : p[1] = "PATH")[2] ELSE "/usr/bin:/bin">>,
     <<"LANG", IF \E p \in env : p[1] = "LANG"
               THEN (CHOOSE p \in env : p[1] = "LANG")[2] ELSE "en_US.UTF-8">>,
     <<"HOME", dir>>, <<"TMPDIR", dir>>}
        \cup {p \in env : p[1] \in {"VIRTUAL_ENV", "CONDA_PREFIX"}}

\* the temporary directory of a host of which only $TMPDIR is looked at
TempDirOf(env) ==
    IF \E p \in env : p[1] = "TMPDIR" /\ p[2] \in {"/tmp", "/var/tmp"}
    THEN (CHOOSE p \in env : p[1] = "TMPDIR")[2] ELSE "/tmp"

\* C22: the environment of every spawned subprocess holds only names of
\* {PATH, HOME, TMPDIR, LANG, VIRTUAL_ENV, CONDA_PREFIX}, the last two only
\* when the host has them, and it is the same on two hosts that differ in
\* other variables only: it is the environment of the host with the other
\* variables unset.
C22_EnvDependsOnAllowedNamesOnly ==
    proc.state # "none" =>
        /\ \A p \in proc.env : p[1] \in AllowedNames
        /\ \A p \in proc.env :
              p[1] \in {"VIRTUAL_ENV", "CONDA_PREFIX"} => p \in environ
        /\ proc.env = ExpectedEnv(OnlyNames(AllowedNames),
                                  TempDirOf(OnlyNames(AllowedNames)))

\* the temporary directory tempfile.gettempdir() gives on a host: $TMPDIR,
\* $TEMP or $TMP, the first that names a usable directory, else /tmp
TempDirWithFallbacks(env) ==
    LET set == [n \in {"TMPDIR", "TEMP", "TMP"} |->
                   \E p \in env : p[1] = n /\ p[2] \in {"/tmp", "/var/tmp"}]
        val == [n \in {"TMPDIR", "TEMP", "TMP"} |->
                   IF set[n] THEN (CHOOSE p \in env : p[1] = n)[2] ELSE "/tmp"]
    IN  IF set["TMPDIR"] THEN val["TMPDIR"]
        ELSE IF set["TEMP"] THEN val["TEMP"]
        ELSE val["TMP"]

\* C22 as amended: the names are as claimed, and the environment is the same
\* on two hosts that differ only in variables other than those names and
\* TEMP and TMP, which choose the directory HOME and TMPDIR are set to.
C22_EnvDependsOnAllowedNamesAndTempDir ==
    proc.state # "none" =>
        /\ \A p \in proc.env : p[1] \in AllowedNames
        /\ \A p \in proc.env :
              p[1] \in {"VIRTUAL_ENV", "CONDA_PREFIX"} => p \in environ
        /\ proc.env =
              ExpectedEnv(OnlyNames(AllowedNames \cup {"TEMP", "TMP"}),
                          TempDirWithFallbacks(
                              OnlyNames(AllowedNames \cup {"TEMP", "TMP"})))

\* a host with PYTHONPATH, PYTHONSTARTUP and a virtual environment: the
\* subprocess has the marker of the virtual environment and neither of the
\* interpreter's variables, and HOME is not the host's
C22_Witness ==
    /\ proc.state = "running"
    /\ {<<"PYTHONPATH", "/srv/lib">>, <<"PYTHONSTARTUP", "/root/.pythonrc">>,
        <<"VIRTUAL_ENV", "/srv/venv">>, <<"HOME", "/root">>} \subseteq environ
    /\ ~\E p \in environ : p[1] \in {"TEMP", "TMPDIR", "PATH"}
    /\ proc.env = {<<"PATH", "/usr/bin:/bin">>, <<"HOME", "/tmp">>,
                   <<"TMPDIR", "/tmp">>, <<"LANG", "C.UTF-8">>,
                   <<"VIRTUAL_ENV", "/srv/venv">>}

\* absolute paths of the host: the temporary program file and the
\* interpreter
HostPaths == {"/tmp/tmpab12cd.py", "/usr/local/bin/python3"}

\* C23: no error text of an outcome holds an absolute path of the host:
\* every diagnostic text is sanitized before it is returned, whichever path
\* produced it.
C23_NoHostPathInErrors ==
    \A n \in 1..Len(results) :
        results[n].error # None =>
            \A i \in 1..Len(Get(results[n].error)) :
                Get(results[n].error)[i] \notin HostPaths

\* the expression of the only test was accepted by the validator: the
\* per-test run went on to write the program
Accepted == log[1].tmp_created \/ log[1].spawned

Rejected == log[1].path = "validation"

\* the characters an accepted expression may hold: word characters
\* (letters, digits, the underscore), whitespace, and ( ) [ ] ' " , = . * : -
AllowlistClass ==
    {"a", "b", "c", "d", "e", "f", "g", "h", "i", "j", "k", "l", "m", "n", "o",
     "p", "q", "r", "s", "t", "u", "v", "w", "x", "y", "z", "S", "T", "U+00E9",
     "0", "1", "2", "3", "4", "5", "6", "7", "8", "9", "_",
     " ", "\t", "\n", "\r",
     "(", ")", "[", "]", "'", "\"", ",", "=", ".", "*", ":", "-"}

\* the characters an accepted expression may start with
LetterOrUnderscore ==
    {"a", "b", "c", "d", "e", "f", "g", "h", "i", "j", "k", "l", "m", "n", "o",
     "p", "q", "r", "s", "t", "u", "v", "w", "x", "y", "z", "S", "T", "_"}

\* C24: an accepted expression starts with a letter or an underscore, holds
\* only characters of the allowlist class and no denylisted substring, and
\* is returned as it was given; a rejected one leaves no file and no
\* process; and the call shapes of the catalog are accepted.
C24_AcceptedExpressionsAreSafe ==
    LET e == test_cases[1].function_call
    IN  /\ Accepted =>
              /\ Len(e) >= 1
              /\ e[1] \in LetterOrUnderscore
              /\ \A i \in 1..Len(e) : e[i] \in AllowlistClass
              /\ \A k \in 1..Len(_DANGEROUS_PATTERNS) :
                    ~Occurs(_DANGEROUS_PATTERNS[k], e)
              /\ _validate_function_call(e).value = e
        /\ Rejected => tmp_files = {} /\ proc.state = "none"
        /\ (pc \notin {"call", "loop"} /\ e \in CatalogCalls) => Accepted

\* the nested call shape of the catalog was accepted and its test passed
C24_Witness ==
    /\ pc = "done"
    /\ test_cases[1].function_call = SortedCall
    /\ Accepted
    /\ results[1].passed

\* the number of lines of the program text that come before the first line
\* of the submitted code
LinesBeforeCode ==
    LET text == wrapper(helpers, code)
        first == CHOOSE i \in 1..Len(text) : text[i] = [part |-> "code", k |-> 1]
    IN  Cardinality({i \in 1..(first - 1) : text[i].part = "newline"})

\* the per-test run is returning the outcome of a test whose evaluation
\* raised an exception
Raised ==
    /\ pc = "append"
    /\ log[Current].spawned /\ ~log[Current].timed_out
    /\ Written.frames # <<>>

\* the frames of the traceback whose line, less the lines before the code,
\* is a line number of the submission
InRange ==
    {i \in 1..Len(Written.frames) :
        /\ Written.frames[i].lineno - LinesBeforeCode >= 1
        /\ Written.frames[i].lineno - LinesBeforeCode <= code.newlines + 1}

\* the innermost of them
InnermostInRange == CHOOSE i \in InRange : \A j \in InRange : j <= i

\* the annotation of an error text: the number N of ' (line N)', 0 without it
AnnotationOf(error) ==
    IF Len(error) = 4 /\ error[2] = " (line " /\ error[4] = ")"
    THEN CHOOSE n \in 0..(LinesBeforeCode + HarnessLines + code.newlines + 400) :
             ToString(n) = error[3]
    ELSE 0

\* C25: the line offset is the number of lines of the program text before
\* the first line of the submitted code, with and without the helper
\* library; an exception whose innermost in-range frame is line k of the
\* submission is annotated ' (line k)'; every annotation is between 1 and the
\* line count of the submission; and no frame of the prologue, the helper
\* library or the harness is in range.
C25_OffsetIsLinesBeforeCode ==
    /\ user_code_offset = LinesBeforeCode
    /\ Raised =>
          LET note == AnnotationOf(Get(pending.error))
          IN  /\ (InRange # {} /\ Written.frames[InnermostInRange].part = "code") =>
                    note = Written.frames[InnermostInRange].k
              /\ Len(Get(pending.error)) > 1 =>
                    note >= 1 /\ note <= code.newlines + 1
              /\ \A i \in InRange :
                    Written.frames[i].part
                        \notin {"rlimit", "import", "helper", "harness"}

\* with the helper library injected, the exception was raised in the last
\* line of the helper library, called from line 2 of a submission of three
\* lines: the annotation is line 2
C25_Witness ==
    /\ Raised
    /\ helpers /\ code.newlines = 2
    /\ Len(Written.frames) = 3
    /\ Written.frames[2].part = "code" /\ Written.frames[2].k = 2
    /\ Written.frames[3].part = "helper" /\ Written.frames[3].k = HelperCodeLines
    /\ pending.error = Some(<<"boom", " (line ", "2", ")">>)

\* the per-test run is returning the outcome of a test whose submission
\* returned a value that json.dumps cannot encode: the exception came from
\* the line of the harness that encodes the result
Unencodable ==
    /\ pc = "append"
    /\ log[Current].spawned /\ ~log[Current].timed_out
    /\ Written.frames # <<>>
    /\ Written.frames[1].part = "harness"
    /\ Written.frames[1].k = HarnessDumpsLine

\* C26: when the harness cannot encode the value the submission returned, it
\* still writes a payload between two copies of the marker with an 'error'
\* key and the captured stdout, and the outcome is an error outcome: passed
\* is false, error is not null and actual is null; the process does not end
\* with a traceback and the payload is not missing.
C26_UnencodableResultIsAnErrorOutcome ==
    Unencodable =>
        /\ PayloadParses
        /\ {"error", "stdout"} \subseteq Parsed.keys
        /\ Parsed.stdout = <<"debug">>
        /\ Written.returncode = 0
        /\ log[Current].path = "runtime_exception"
        /\ ~pending.passed
        /\ pending.error # None
        /\ pending.actual = None
        /\ pending.stdout = <<"debug">>

\* the submission returned a set and printed 'debug': the outcome carries
\* the message of the TypeError and the captured output
C26_Witness ==
    /\ Unencodable
    /\ pending.error = Some(<<"Object of type set is not JSON serializable">>)
    /\ pending.stdout = <<"debug">>
    /\ ~pending.passed

\* the outcome of test n when its timeout fired
TimeLimitExceeded(n) ==
    [test_num |-> n, input |-> test_cases[n].input,
     expected |-> test_cases[n].expected, actual |-> None, passed |-> FALSE,
     error |-> Some(<<"Time Limit Exceeded", " (", ToString(timeout), "s)">>),
     runtime_ms |-> None, stdout |-> <<>>]

\* the per-test run leaves the handler of a timeout whose cleanup did not
\* succeed: the process was not reaped when the wait for it ended
CleanupFailed ==
    /\ pc = "append"
    /\ log[Current].timed_out
    /\ proc.state # "reaped"

\* C27: when the cleanup after a timeout fails (the kill has no effect, or
\* the grace period of the reap elapses), the failure is swallowed: the
\* outcome of the test is the Time-Limit-Exceeded outcome, the temporary
\* file is removed, and run_tests does not raise.
C27_CleanupFailuresAreSwallowed ==
    /\ CleanupFailed =>
          /\ pending = TimeLimitExceeded(Current)
          /\ tmp_path \notin tmp_files
    /\ \A n \in DOMAIN log :
          log[n].timed_out =>
              /\ pc # "raised"
              /\ n <= Len(results) => results[n] = TimeLimitExceeded(n)

\* the kill left the process running and the grace period of the reap
\* elapsed: the outcome is the Time-Limit-Exceeded outcome
C27_Witness ==
    /\ CleanupFailed
    /\ proc.state = "stuck"
    /\ reap_waited = _KILL_WAIT_TIMEOUT
    /\ pending = TimeLimitExceeded(Current)
    /\ tmp_path \notin tmp_files

\* the limits whose line of the prologue has run
Passed(l) ==
    CASE l = "memory" -> rlimit.pc \notin {"memory"}
      [] l = "cpu" -> rlimit.pc \notin {"memory", "cpu"}
      [] l = "fsize" -> rlimit.pc \notin {"memory", "cpu", "fsize"}
      [] OTHER -> rlimit.pc \in {"code", "ran"}

\* the platform has the limit and does not refuse it, and the requested
\* value is above the hard ceiling
AboveCeiling(l) ==
    /\ rlimit.platform[l].kind = "ok"
    /\ rlimit.platform[l].hard > 0
    /\ rlimit.platform[l].hard < Requested(l)

\* the platform does not have the limit, or refuses it
NotSupported(l) == rlimit.platform[l].kind # "ok"

\* C28: for each of the four limits of the prologue, a requested value
\* above the hard ceiling gives the hard ceiling, and a limit the platform
\* does not support or refuses is skipped; the prologue never aborts, so
\* the submitted code is reached.
C28_PrologueNeverAborts ==
    /\ rlimit.pc # "aborted"
    /\ \A l \in LimitNames :
          (Passed(l) /\ rlimit.pc # "aborted") =>
              /\ AboveCeiling(l) =>
                    rlimit.applied[l] = Some(rlimit.platform[l].hard)
              /\ NotSupported(l) => rlimit.applied[l] = None

\* the lines the process wrote that are not blank
WrittenLines == {i \in 1..Len(Written.stderr) : ~IsBlank(Written.stderr[i])}

\* the per-test run is returning the outcome of a process that failed and
\* whose diagnostic text holds a traceback that ends with its error line
FailedWithTraceback ==
    /\ ProcessExited
    /\ ~PayloadFound
    /\ Written.returncode # 0
    /\ \E i \in WrittenLines : Written.stderr[i].kind = "tb"
    /\ Written.stderr[Max(WrittenLines)].kind = "text"

\* the final error line of the traceback
FinalErrorLine == Written.stderr[Max(WrittenLines)].text

\* the lines of the submission that the frames of the traceback map to
FrameLines ==
    {Written.stderr[i].line - LinesBeforeCode :
        i \in {j \in WrittenLines : Written.stderr[j].kind = "frame"}}
            \cap (1..(code.newlines + 1))

\* C29: when the diagnostic text of a failed process holds a traceback, the
\* error of the outcome is the final error line of the traceback alone,
\* followed by ' (line N)' when a frame maps to line N of the submission;
\* the frame lines are not returned.
C29_TracebackIsReducedToItsErrorLine ==
    FailedWithTraceback =>
        IF FrameLines = {}
        THEN pending.error = Some(<<FinalErrorLine>>)
        ELSE \E n \in FrameLines :
                pending.error = Some(<<FinalErrorLine, " (line ", ToString(n), ")">>)

\* the nodes reached from node h by following next, at most fuel of them
RECURSIVE Chain(_, _)
Chain(h, fuel) ==
    IF h = 0 \/ fuel = 0 THEN <<>>
    ELSE <<h>> \o Chain(heap[h].next, fuel - 1)

\* the chain that list_node returned
Built == Chain(helper_call.head, Len(heap) + 1)

\* list_node has returned
ListBuilt == helper_call.pc \in {"list_node_to_list", "while", "done"}

\* C30: for a list x of values that is not empty, list_node(x) is a chain
\* of exactly len(x) nodes with the values of x whose last node has next =
\* None, and list_node_to_list gives x back; for an empty list or None,
\* list_node returns None and list_node_to_list(None) returns None.
C30_ListRoundTrip ==
    /\ (ListBuilt /\ ~Falsy(helper_call.values)) =>
          LET x == Get(helper_call.values)
          IN  /\ Len(Built) = Len(x)
              /\ \A k \in 1..Len(x) : heap[Built[k]].val = x[k]
              /\ heap[Built[Len(x)]].next = 0
              /\ Cardinality({Built[k] : k \in 1..Len(x)}) = Len(x)
              /\ helper_call.pc = "done" => helper_call.result = Some(x)
    /\ (ListBuilt /\ Falsy(helper_call.values)) =>
          /\ helper_call.head = 0
          /\ helper_call.pc = "done" => helper_call.result = None

\* the round trip of a list of three values has ended
C30_Witness ==
    /\ helper_call.pc = "done"
    /\ helper_call.values = Some(<<1, 0, 2>>)
    /\ helper_call.result = Some(<<1, 0, 2>>)
    /\ Len(heap) = 3

\* what holds of a call of list_node_with_cycle(x, pos) once the chain is
\* made: without a cycle the chain ends, with one the last node is linked
\* to the node at pos; the walk of list_node_to_list has collected the
\* values of the nodes it has seen, each once and in order
CycleRoundTrip ==
    (ListBuilt /\ ~Falsy(helper_call.values)) =>
        LET x == Get(helper_call.values)
        IN  /\ helper_call.pos < 0 =>
                  Len(Built) = Len(x) /\ heap[Built[Len(x)]].next = 0
            /\ helper_call.pos >= 0 =>
                  heap[Built[Len(x)]].next = Built[helper_call.pos + 1]
            /\ Cardinality({Built[k] : k \in 1..Len(x)}) = Len(x)
            /\ helper_call.pc \in {"while", "done"} =>
                  /\ Cardinality(helper_call.seen) <= Len(x)
                  /\ helper_call.result =
                        Some(SubSeq(x, 1, Cardinality(helper_call.seen)))
            /\ helper_call.pc = "done" => helper_call.result = Some(x)

\* C31: for a list of values that is not empty and 0 <= pos < len(values),
\* list_node_to_list applied to list_node_with_cycle(values, pos) ends and
\* returns values, each node visited once and in order; for pos < 0 the
\* list has no cycle and the result is the same.
C31_CycleWalkEnds == []CycleRoundTrip /\ <>(helper_call.pc = "done")

\* the last of three nodes was linked back to the second, and the walk
\* ended with the three values
C31_Witness ==
    /\ helper_call.pc = "done"
    /\ helper_call.values = Some(<<1, 0, 1>>)
    /\ helper_call.pos = 1
    /\ Len(heap) = 3 /\ heap[3].next = 2
    /\ helper_call.result = Some(<<1, 0, 1>>)

\* how many of the first n entries of v are not null
NonNull(v, n) == Cardinality({j \in 1..n : v[j] # {}})

\* v is the level-order serialization of a tree with a root: the root is
\* not null, and entry i is a child of a node listed before it (the
\* children of the k-th node are entries 2k and 2k+1)
ValidLevelOrder(v) ==
    /\ v # <<>>
    /\ v[1] # {}
    /\ \A i \in 2..Len(v) : NonNull(v, i - 1) >= i \div 2

\* v without the nulls at its end
RECURSIVE WithoutTrailingNulls(_)
WithoutTrailingNulls(v) ==
    IF v = <<>> THEN v
    ELSE IF v[Len(v)] = {} THEN WithoutTrailingNulls(SubSeq(v, 1, Len(v) - 1))
    ELSE v

\* tree_node has returned
TreeBuilt ==
    helper_call.pc \in {"tree_node_to_list", "while queue", "while result",
                        "done"}

\* C32: for a valid level-order serialization v of a tree with a root,
\* tree_node_to_list(tree_node(v)) is v without its trailing nulls; for an
\* empty list or None, tree_node returns None and tree_node_to_list(None)
\* returns None.
C32_TreeRoundTrip ==
    /\ (TreeBuilt /\ helper_call.values # {}
                  /\ ValidLevelOrder(Get(helper_call.values))) =>
          /\ helper_call.root # 0
          /\ helper_call.pc = "done" =>
                helper_call.result =
                    {WithoutTrailingNulls(Get(helper_call.values))}
    /\ (TreeBuilt /\ (helper_call.values = {}
                        \/ Get(helper_call.values) = <<>>)) =>
          /\ helper_call.root = 0
          /\ helper_call.pc = "done" => helper_call.result = {}

\* the round trip of [0, null, 1, null, null] has ended with [0, null, 1]:
\* the value 0 is kept and the nulls at the end are dropped
C32_Witness ==
    /\ helper_call.pc = "done"
    /\ helper_call.values = {<<{0}, {}, {1}, {}, {}>>}
    /\ helper_call.result = {<<{0}, {}, {1}>>}
    /\ Len(heap) = 2

\* the frames of the traceback that lie in the submitted code
CodeFrames ==
    {i \in 1..Len(Written.frames) :
        Written.frames[i].file = "program" /\ Written.frames[i].part = "code"}

\* C33: the annotation ' (line N)' of an error comes from a frame of the
\* submitted code only: when an exception is annotated, its traceback has a
\* frame in the submitted code and N is the line of the innermost one; a
\* frame of another file is not selected, whatever its line number.
C33_AnnotationComesFromTheCode ==
    (Raised /\ AnnotationOf(Get(pending.error)) > 0) =>
        /\ CodeFrames # {}
        /\ AnnotationOf(Get(pending.error)) = Written.frames[Max(CodeFrames)].k

\* C34: _kill_process_group sends no signal addressed by the pid or the
\* process-group id of the subprocess after the subprocess has exited and
\* been reaped, however the exit interleaves with the handler of the
\* timeout: no process that got the pid afterwards is signalled.
C34_NoSignalAfterReap == ~proc.stray

\* the tests that were executed: a subprocess was spawned for them
Executed == {n \in DOMAIN log : log[n].spawned}

\* C35: when the wall-clock timeout fires, the outcome of the test is the
\* Time-Limit-Exceeded outcome with actual, runtime_ms null and stdout
\* empty, also when the harness had written its payload (a descendant held
\* the pipes open): what a timed-out run wrote is not used, and every
\* executed test has exactly one outcome, at its own position.
C35_TimeoutOutcomeIgnoresOutput ==
    /\ (pc = "append" /\ log[Current].timed_out) =>
          pending = TimeLimitExceeded(Current)
    /\ \A n \in 1..Len(results) :
          /\ results[n].test_num = n
          /\ log[n].timed_out =>
                /\ results[n].actual = None
                /\ results[n].runtime_ms = None
                /\ results[n].stdout = <<>>
                /\ results[n] = TimeLimitExceeded(n)
    /\ Len(results) <= Len(test_cases)
    /\ \A n \in Executed : n <= Len(results) + 1
    /\ pc = "done" => \A n \in Executed : n <= Len(results)

\* the harness wrote its payload and exited, a descendant held the pipes
\* open until the timeout fired: the outcome is Time Limit Exceeded
C35_Witness ==
    /\ pc = "append"
    /\ log[Current].timed_out
    /\ proc.wrote = <<marker, Chunk("json", "{result: 1}", 0), marker>>
    /\ pending = TimeLimitExceeded(Current)
    /\ Len(results) = 1

\* the outcome that the payload alone stands for
OutcomeOfPayload ==
    LET test == test_cases[Current]
        none == [test_num |-> Current, input |-> test.input,
                 expected |-> test.expected, actual |-> {}, passed |-> FALSE,
                 error |-> {}, runtime_ms |-> {}, stdout |-> <<>>]
    IN  IF ~PayloadParses
        THEN [none EXCEPT !.error = {<<"Failed to parse execution result">>}]
        ELSE IF "error" \in Parsed.keys
        THEN [none EXCEPT !.error = Parsed.error, !.stdout = Parsed.stdout]
        ELSE IF {"result", "runtime_ms"} \subseteq Parsed.keys
        THEN [none EXCEPT !.actual = {Parsed.result},
                          !.passed = Parsed.result.n = test.expected.n,
                          !.runtime_ms = Parsed.runtime_ms,
                          !.stdout = Parsed.stdout]
        ELSE [none EXCEPT !.error = {<<"Execution error: ", "'result'">>}]

\* C36: when a payload is found between two copies of the marker, the
\* outcome is the one the payload stands for, whatever the exit code of the
\* process: a non-zero exit with a valid payload gives the result or the
\* error of the payload, and the diagnostic of a process that exited
\* non-zero is used only when no payload was found.
C36_PayloadBeatsExitCode ==
    ProcessExited =>
        /\ PayloadFound => pending = OutcomeOfPayload
        /\ pending.error = {<<"Process exited with non-zero status">>} =>
              ~PayloadFound /\ Written.returncode # 0

\* the process wrote the payload of the expected result and exited with
\* code 1: the test passed
C36_Witness ==
    /\ ProcessExited
    /\ Written.returncode = 1
    /\ PayloadParses
    /\ Parsed.result.n = 1 /\ "error" \notin Parsed.keys
    /\ pending.passed
    /\ pending.actual = {Parsed.result}

\* what the specification says of one outcome: an error goes with a failed
\* test without a value or a runtime, and a passed test has no error and
\* has a runtime
ConsistentOutcome(o) ==
    /\ o.error # None => (~o.passed /\ o.actual = None /\ o.runtime_ms = None)
    /\ o.passed => (o.error = None /\ o.runtime_ms # None)

\* C37: every outcome of every returned summary satisfies: a non-null error
\* implies passed = false, actual = null and runtime_ms = null; passed = true
\* implies error = null and a non-null runtime_ms; and runtime_ms is non-null
\* only for an outcome built from a payload without an 'error' key.
C37_OutcomeInvariants ==
    /\ \A n \in 1..Len(results) : ConsistentOutcome(results[n])
    /\ summary # None =>
          \A n \in 1..Len(Get(summary).results) :
              ConsistentOutcome(Get(summary).results[n])
    /\ (pc = "append" /\ pending.runtime_ms # None) =>
          /\ ProcessExited
          /\ PayloadParses
          /\ "error" \notin Parsed.keys

====
